---- MODULE Spec2Model ----
(***************************************************************************)
(* Verification model of bbs-client-genz: the Telnet connection            *)
(* (internal/telnet/telnet.go), the ANSI screen (internal/ansi), the       *)
(* ZMODEM framer, receiver and sender (internal/zmodem) and the session    *)
(* coordinator (app.go).  Bytes are the integers 0..255, byte strings are  *)
(* sequences of bytes.  Every component has a specification of its own     *)
(* over its own variables; the variables of the other components stay at   *)
(* their idle values there.                                                *)
(***************************************************************************)
EXTENDS Integers, Sequences, FiniteSets, TLC

VARIABLES
    \* --- Telnet framing (Connection.processTelnet driven by recvLoop) ---
    wire,        \* raw inbound bytes the transport has not delivered yet
    tnStream,    \* the whole inbound stream (history variable)
    tnClean,     \* concatenation of the clean chunks processTelnet returned
    tnSent,      \* the byte strings handed to Connection.Send, in order
    tnHang,      \* TRUE once processTelnet spins in its for loop
    \* --- hand-off of clean chunks, reader -> coordinator (emitData) ---
    DataCh,      \* Connection.DataCh: the buffered channel, oldest first
    chEmitted,   \* number of emitData calls made by the reader
    chDelivered, \* the chunks eventLoop received from DataCh, in order
    \* --- ANSI screen (ansi.Screen) ---
    screen,      \* the Screen record (see NewScreen)
    scrOff,      \* number of Feed calls that ended with the cursor outside the grid
    \* --- ZMODEM receiver (zmodem.Receiver) ---
    rx,          \* the Receiver record and its world (see NewReceiver)
    rxScn,       \* the remote side's script: what it sends in this session
    rxWire,      \* the bytes of the script not yet fed
    rxJunk,      \* number of chunks fed after the end of the script
    \* --- ZMODEM routing of the reader (Connection.recvLoop) ---
    conn,        \* the Connection's ZMODEM fields and its world (see NewConnection)
    cnScn,       \* the session's script: the clean chunks read, the file to upload
    cnIn,        \* the clean chunks of the script not yet read
    cnUp,        \* position of the task running StartZmodemUpload (0: not called)
    cnTail,      \* last 64 bytes of the clean chunks the detector has seen (history)
    cnLog,       \* one entry per clean chunk: where recvLoop routed it (history)
    \* --- ZMODEM sender (zmodem.Sender) ---
    tx,          \* the Sender record and its world (see NewSender)
    txLog,       \* the frames of the remote side the sender has been fed (history)
    \* --- reader -> host hand-off (DataCh, EventCh, App.eventLoop) ---
    host,        \* the two channels and the order of production and consumption
    \* --- snapshots of the screen (App.GetScreenSnapshot beside eventLoop) ---
    snap,        \* the App's screen, its mutex and the tasks' positions
    \* --- life of the reader task (Connect, recvLoop, Disconnect) ---
    rd,          \* the reader's position, stopCh, the socket and EventCh
    \* --- pure functions applied to chosen inputs ---
    fnIn,        \* the call: the function's name and its arguments
    fnOut,       \* <<>> before the call, <<result>> after it
    \* --- socket writes and the two mutexes (Connection.Send, App) ---
    io,          \* a.mu, c.mu, the tasks' positions in Send and the bytes written
    \* --- the connected flags of App and Connection (Connect, Disconnect) ---
    link         \* both flags, EventCh, the sockets and the reader tasks

telnetVars == <<wire, tnStream, tnClean, tnSent, tnHang>>
chanVars == <<DataCh, chEmitted, chDelivered>>

screenVars == <<screen, scrOff>>

rxVars == <<rx, rxScn, rxWire, rxJunk>>

connVars == <<conn, cnScn, cnIn, cnUp, cnTail, cnLog>>

txVars == <<tx, txLog>>
hostVars == <<host>>
snapVars == <<snap>>
readerVars == <<rd>>
fnVars == <<fnIn, fnOut>>
ioVars == <<io>>
linkVars == <<link>>

vars == <<telnetVars, chanVars, screenVars, rxVars, connVars,
          txVars, hostVars, snapVars, readerVars, fnVars, ioVars, linkVars>>

laterVars == <<txVars, hostVars, snapVars, readerVars, fnVars, ioVars, linkVars>>
firstVars == <<telnetVars, chanVars, screenVars, rxVars, connVars>>

notTelnet == <<chanVars, screenVars, rxVars, connVars, laterVars>>
notChan == <<telnetVars, screenVars, rxVars, connVars, laterVars>>
notScreen == <<telnetVars, chanVars, rxVars, connVars, laterVars>>
notRx == <<telnetVars, chanVars, screenVars, connVars, laterVars>>
notConn == <<telnetVars, chanVars, screenVars, rxVars, laterVars>>
notTx == <<firstVars, hostVars, snapVars, readerVars, fnVars, ioVars, linkVars>>
notHost == <<firstVars, txVars, snapVars, readerVars, fnVars, ioVars, linkVars>>
notSnap == <<firstVars, txVars, hostVars, readerVars, fnVars, ioVars, linkVars>>
notReader == <<firstVars, txVars, hostVars, snapVars, fnVars, ioVars, linkVars>>
notFn == <<firstVars, txVars, hostVars, snapVars, readerVars, ioVars, linkVars>>
notIo == <<firstVars, txVars, hostVars, snapVars, readerVars, fnVars, linkVars>>
notLink == <<firstVars, txVars, hostVars, snapVars, readerVars, fnVars, ioVars>>

(* Idle values: the variables of a component in the specifications of the *)
(* other components.                                                      *)
IdleTelnet ==
    /\ wire = <<>> /\ tnStream = <<>> /\ tnClean = <<>> /\ tnSent = <<>>
    /\ tnHang = FALSE
IdleChan == DataCh = <<>> /\ chEmitted = 0 /\ chDelivered = <<>>
IdleScreen == screen = <<>> /\ scrOff = 0

IdleRx == rx = <<>> /\ rxScn = <<>> /\ rxWire = <<>> /\ rxJunk = 0

IdleConn ==
    /\ conn = <<>> /\ cnScn = <<>> /\ cnIn = <<>> /\ cnUp = 0 /\ cnTail = <<>>
    /\ cnLog = <<>>

IdleTx == tx = <<>> /\ txLog = <<>>
IdleHost == host = <<>>
IdleSnap == snap = <<>>
IdleReader == rd = <<>>
IdleFn == fnIn = <<>> /\ fnOut = <<>>
IdleIo == io = <<>>
IdleLink == link = <<>>

IdleLater == IdleTx /\ IdleHost /\ IdleSnap /\ IdleReader /\ IdleFn /\ IdleIo /\ IdleLink
IdleFirst == IdleTelnet /\ IdleChan /\ IdleScreen /\ IdleRx /\ IdleConn

IdleNotTelnet == IdleChan /\ IdleScreen /\ IdleRx /\ IdleConn /\ IdleLater
IdleNotChan == IdleTelnet /\ IdleScreen /\ IdleRx /\ IdleConn /\ IdleLater
IdleNotScreen == IdleTelnet /\ IdleChan /\ IdleRx /\ IdleConn /\ IdleLater
IdleNotRx == IdleTelnet /\ IdleChan /\ IdleScreen /\ IdleConn /\ IdleLater
IdleNotConn == IdleTelnet /\ IdleChan /\ IdleScreen /\ IdleRx /\ IdleLater
IdleNotTx == IdleFirst /\ IdleHost /\ IdleSnap /\ IdleReader /\ IdleFn /\ IdleIo /\ IdleLink
IdleNotHost == IdleFirst /\ IdleTx /\ IdleSnap /\ IdleReader /\ IdleFn /\ IdleIo /\ IdleLink
IdleNotSnap == IdleFirst /\ IdleTx /\ IdleHost /\ IdleReader /\ IdleFn /\ IdleIo /\ IdleLink
IdleNotReader == IdleFirst /\ IdleTx /\ IdleHost /\ IdleSnap /\ IdleFn /\ IdleIo /\ IdleLink
IdleNotFn == IdleFirst /\ IdleTx /\ IdleHost /\ IdleSnap /\ IdleReader /\ IdleIo /\ IdleLink
IdleNotIo == IdleFirst /\ IdleTx /\ IdleHost /\ IdleSnap /\ IdleReader /\ IdleFn /\ IdleLink
IdleNotLink == IdleFirst /\ IdleTx /\ IdleHost /\ IdleSnap /\ IdleReader /\ IdleFn /\ IdleIo

-----------------------------------------------------------------------------
(* Telnet protocol constants, telnet.go:25-38 *)
IAC == 255
DONT == 254
DO == 253
WONT == 252
WILL == 251
SB == 250
SE == 240
NAWS == 31
TTYPE == 24
ECHO == 1
SGA == 3
BINARY == 0
DefaultCols == 80
DefaultRows == 25

TermType == <<65, 78, 83, 73>>   \* "ANSI"

(* sendNAWS: IAC SB NAWS cols(16 bit big endian) rows(16 bit big endian) IAC SE *)
sendNAWS(cols, rows) ==
    <<IAC, SB, NAWS, (cols \div 256) % 256, cols % 256,
      (rows \div 256) % 256, rows % 256, IAC, SE>>

sendIAC(cmd, opt) == <<IAC, cmd, opt>>

negotiateNoBinary(cmd, opt) ==
    CASE cmd = DO ->
           (CASE opt = TTYPE -> <<sendIAC(WILL, TTYPE)>>
              [] opt = NAWS -> <<sendIAC(WILL, NAWS), sendNAWS(DefaultCols, DefaultRows)>>
              [] opt = SGA -> <<sendIAC(WILL, opt)>>
              [] OTHER -> <<sendIAC(WONT, opt)>>)
      [] cmd = WILL ->
           (CASE opt \in {ECHO, SGA} -> <<sendIAC(DO, opt)>>
              [] OTHER -> <<sendIAC(DONT, opt)>>)
      [] cmd = DONT -> <<sendIAC(WONT, opt)>>
      [] cmd = WONT -> <<sendIAC(DONT, opt)>>
      [] OTHER -> <<>>

(* negotiate: the sequence of byte strings sent in answer to IAC cmd opt *)
negotiate(cmd, opt) ==
    CASE cmd = DO ->
           (CASE opt = TTYPE -> <<sendIAC(WILL, TTYPE)>>
              [] opt = NAWS -> <<sendIAC(WILL, NAWS), sendNAWS(DefaultCols, DefaultRows)>>
              [] opt \in {SGA, BINARY} -> <<sendIAC(WILL, opt)>>
              [] OTHER -> <<sendIAC(WONT, opt)>>)
      [] cmd = WILL ->
           (CASE opt \in {ECHO, SGA, BINARY} -> <<sendIAC(DO, opt)>>
              [] OTHER -> <<sendIAC(DONT, opt)>>)
      [] cmd = DONT -> <<sendIAC(WONT, opt)>>
      [] cmd = WONT -> <<sendIAC(DONT, opt)>>
      [] OTHER -> <<>>

(* subnegotiate: answer to the payload between IAC SB and IAC SE *)
subnegotiate(data) ==
    IF Len(data) >= 2 /\ data[1] = TTYPE /\ data[2] = 1
    THEN << <<IAC, SB, TTYPE, 0>> \o TermType \o <<IAC, SE>> >>
    ELSE <<>>

(* findIACSE: least position p >= start with data[p] = IAC, data[p+1] = SE;  *)
(* 0 when there is none (the code's -1; positions are 1-based here).         *)
findIACSE(data, start) ==
    LET hits == {p \in start..(Len(data) - 1) : data[p] = IAC /\ data[p + 1] = SE}
    IN  IF hits = {} THEN 0
        ELSE CHOOSE p \in hits : \A q \in hits : p <= q

(* The for loop of processTelnet from position i (1-based).  The result     *)
(* holds the clean bytes, the replies sent and hang: the `break` statements *)
(* of the DO/DONT/WILL/WONT and SB cases leave the switch, not the loop, so *)
(* the loop runs again with the same i and never ends.                      *)
RECURSIVE ptLoop(_, _, _, _)
ptLoop(data, i, clean, sent) ==
    IF i > Len(data) THEN [clean |-> clean, sent |-> sent, hang |-> FALSE]
    ELSE IF data[i] # IAC THEN ptLoop(data, i + 1, Append(clean, data[i]), sent)
    ELSE IF i + 1 > Len(data) THEN [clean |-> clean, sent |-> sent, hang |-> FALSE]
    ELSE LET cmd == data[i + 1] IN
         CASE cmd = IAC -> ptLoop(data, i + 2, Append(clean, IAC), sent)
           [] cmd \in {DO, DONT, WILL, WONT} ->
                IF i + 2 > Len(data)
                THEN [clean |-> clean, sent |-> sent, hang |-> TRUE]
                ELSE ptLoop(data, i + 3, clean, sent \o negotiate(cmd, data[i + 2]))
           [] cmd = SB ->
                LET end == findIACSE(data, i) IN
                IF end = 0
                THEN [clean |-> clean, sent |-> sent, hang |-> TRUE]
                ELSE ptLoop(data, end + 2, clean,
                            sent \o subnegotiate(SubSeq(data, i + 2, end - 1)))
           [] OTHER -> ptLoop(data, i + 2, clean, sent)

processTelnet(data) == ptLoop(data, 1, <<>>, <<>>)

-----------------------------------------------------------------------------
(* Specification of the Telnet framing: a stream of complete Telnet items   *)
(* is cut into reads at arbitrary places.                                    *)
MaxItems == 2

TelnetItems ==
    { <<65>>, <<IAC, IAC>>, <<IAC, WILL, ECHO>>, <<IAC, DO, NAWS>>,
      <<IAC, 241>>, <<IAC, SB, TTYPE, 1, IAC, SE>> }

RECURSIVE ItemStreams(_)
ItemStreams(n) ==
    IF n = 0 THEN {<<>>}
    ELSE LET shorter == ItemStreams(n - 1)
         IN  shorter \cup {s \o t : s \in shorter, t \in TelnetItems}

InitTelnet ==
    /\ IdleNotTelnet
    /\ wire \in ItemStreams(MaxItems)
    /\ tnStream = wire
    /\ tnClean = <<>>
    /\ tnSent = <<>>
    /\ tnHang = FALSE

(* One iteration of recvLoop that reads n bytes: conn.Read, processTelnet *)
TelnetRead(n) ==
    /\ ~tnHang
    /\ n \in 1..Len(wire)
    /\ LET res == processTelnet(SubSeq(wire, 1, n)) IN
         /\ tnHang' = res.hang
         /\ tnSent' = tnSent \o res.sent
         /\ tnClean' = IF res.hang THEN tnClean ELSE tnClean \o res.clean
    /\ wire' = SubSeq(wire, n + 1, Len(wire))
    /\ UNCHANGED <<tnStream, notTelnet>>

NextTelnet == \E n \in 1..Len(wire) : TelnetRead(n)

SpecTelnet == InitTelnet /\ [][NextTelnet]_vars

\* C1: when the whole stream has been read, whatever the cuts, the clean
\* stream and the replies equal those of the uncut stream and the reader
\* has not stopped (no byte of a truncated IAC sequence is lost).
C1_SplitReadsEqualUncut ==
    (wire = <<>>) =>
        /\ ~tnHang
        /\ tnClean = processTelnet(tnStream).clean
        /\ tnSent = processTelnet(tnStream).sent

-----------------------------------------------------------------------------
(* Hand-off of clean chunks from the reader to the coordinator.            *)
(* New(): DataCh is make(chan []byte, 64), telnet.go:121.                  *)
DataChCap == 64
MaxChunks == 66

(* emitData: select { case c.DataCh <- data: default: }  -- a send that    *)
(* does not block: the chunk is dropped when the channel is full.          *)
emitData(ch, data) == IF Len(ch) < DataChCap THEN Append(ch, data) ELSE ch

InitChan ==
    /\ IdleNotChan
    /\ DataCh = <<>>
    /\ chEmitted = 0
    /\ chDelivered = <<>>

(* The reader emits its next clean chunk (chunks are numbered as emitted) *)
ChanEmit ==
    /\ chEmitted < MaxChunks
    /\ chEmitted' = chEmitted + 1
    /\ DataCh' = emitData(DataCh, chEmitted + 1)
    /\ UNCHANGED <<chDelivered, notChan>>

(* eventLoop: case data := <-a.conn.DataCh *)
ChanReceive ==
    /\ DataCh # <<>>
    /\ chDelivered' = Append(chDelivered, Head(DataCh))
    /\ DataCh' = Tail(DataCh)
    /\ UNCHANGED <<chEmitted, notChan>>

NextChan == ChanEmit \/ ChanReceive

SpecChan == InitChan /\ [][NextChan]_vars

\* C2: every chunk the reader emitted is either delivered to the consumer or
\* still queued, in emission order: the hand-off drops nothing.
C2_NoChunkDropped ==
    chDelivered \o DataCh = [i \in 1..chEmitted |-> i]

-----------------------------------------------------------------------------
(* Go's int on the 64-bit targets of the build: a two's complement word,    *)
(* kept as four 16-bit limbs, most significant first, so that + and - wrap  *)
(* at 2^64 as the machine does.                                             *)
Limb == 2^16
HalfLimb == 2^15

I64(n) ==
    IF n >= 0 THEN <<0, 0, n \div Limb, n % Limb>>
    ELSE LET m == (-n) - 1 IN
         <<Limb - 1, Limb - 1, (Limb - 1) - (m \div Limb), (Limb - 1) - (m % Limb)>>

I64Add(a, b) ==
    LET s4 == a[4] + b[4]
        s3 == a[3] + b[3] + s4 \div Limb
        s2 == a[2] + b[2] + s3 \div Limb
        s1 == a[1] + b[1] + s2 \div Limb
    IN <<s1 % Limb, s2 % Limb, s3 % Limb, s4 % Limb>>

I64Neg(a) ==
    I64Add(<<(Limb - 1) - a[1], (Limb - 1) - a[2], (Limb - 1) - a[3], (Limb - 1) - a[4]>>,
           I64(1))

I64Sub(a, b) == I64Add(a, I64Neg(b))

I64IsNeg(a) == a[1] >= HalfLimb

(* a < b as signed 64-bit integers *)
I64Less(a, b) ==
    IF I64IsNeg(a) # I64IsNeg(b) THEN I64IsNeg(a)
    ELSE \E k \in 1..4 : a[k] < b[k] /\ \A j \in 1..(k - 1) : a[j] = b[j]

I64LessEq(a, b) == a = b \/ I64Less(a, b)
I64Min(a, b) == IF I64Less(b, a) THEN b ELSE a
I64Max(a, b) == IF I64Less(a, b) THEN b ELSE a

(* the word as a model integer, for words known to lie in -2^30..2^30 *)
I64Small(a) ==
    \/ a[1] = 0 /\ a[2] = 0 /\ a[3] < HalfLimb \div 2
    \/ a[1] = Limb - 1 /\ a[2] = Limb - 1 /\ a[3] >= Limb - HalfLimb \div 2
I64Int(a) ==
    IF a[1] = 0 THEN a[3] * Limb + a[4]
    ELSE -(((Limb - 1) - a[3]) * Limb + ((Limb - 1) - a[4])) - 1

(* Go's a % 8: the remainder has the sign of a *)
I64Rem8(a) ==
    LET low == a[4] % 8 IN
    IF I64IsNeg(a) /\ low # 0 THEN low - 8 ELSE low

(* strconv.Atoi on a string of code points: the value, or err for a string  *)
(* that is not all decimal digits or whose value is above 2^63-1.           *)
IsDigit(ch) == ch >= 48 /\ ch <= 57

RECURSIVE atoiLoop(_, _, _)
atoiLoop(str, k, acc) ==
    IF k > Len(str) THEN [err |-> FALSE, val |-> acc]
    ELSE IF ~IsDigit(str[k]) THEN [err |-> TRUE, val |-> I64(0)]
    ELSE LET m4 == acc[4] * 10 + (str[k] - 48)
             m3 == acc[3] * 10 + m4 \div Limb
             m2 == acc[2] * 10 + m3 \div Limb
             m1 == acc[1] * 10 + m2 \div Limb
         IN IF m1 >= HalfLimb THEN [err |-> TRUE, val |-> I64(0)]
            ELSE atoiLoop(str, k + 1, <<m1, m2 % Limb, m3 % Limb, m4 % Limb>>)

Atoi(str) ==
    IF str = <<>> THEN [err |-> TRUE, val |-> I64(0)] ELSE atoiLoop(str, 1, I64(0))

(* strconv.Itoa: the decimal digits of the word, with '-' for a negative one *)
RECURSIVE utoaLoop(_, _)
utoaLoop(mag, digits) ==
    LET c1 == mag[1]
        c2 == (c1 % 10) * Limb + mag[2]
        c3 == (c2 % 10) * Limb + mag[3]
        c4 == (c3 % 10) * Limb + mag[4]
        quot == <<c1 \div 10, c2 \div 10, c3 \div 10, c4 \div 10>>
        more == <<48 + (c4 % 10)>> \o digits
    IN IF quot = <<0, 0, 0, 0>> THEN more ELSE utoaLoop(quot, more)

Itoa(a) == IF I64IsNeg(a) THEN <<45>> \o utoaLoop(I64Neg(a), <<>>) ELSE utoaLoop(a, <<>>)

-----------------------------------------------------------------------------
(* ANSI screen (package ansi).  A Screen is a record of the struct's fields *)
(* plus two fields for what a call leaves outside the struct: resp, the     *)
(* byte strings handed to OnResponse by the current Feed, and fault, TRUE   *)
(* once a cell access was made outside the grid (Go's index-out-of-range    *)
(* panic).  Characters are code points.  Buffer[y + 1][x + 1] is the cell   *)
(* in row y, column x.                                                      *)
DefaultFG == 7
DefaultBG == 0
MaxCSIBuf == 1024

stateNormal == 0
stateESC == 1
stateCSI == 2
stateOSC == 3

IndexColor(idx) == [Index |-> idx, R |-> 0, G |-> 0, B |-> 0, IsRGB |-> FALSE]
RGBColor(r, g, b) == [Index |-> I64(-1), R |-> r, G |-> g, B |-> b, IsRGB |-> TRUE]

DefaultAttr ==
    [FG |-> IndexColor(I64(DefaultFG)), BG |-> IndexColor(I64(DefaultBG)),
     Bold |-> FALSE, Blink |-> FALSE, Reverse |-> FALSE, Underline |-> FALSE]

NewCell == [Char |-> 32, Attr |-> DefaultAttr]

newRow(cols) == [x \in 1..cols |-> NewCell]
newBuffer(cols, rows) == [y \in 1..rows |-> newRow(cols)]

NewScreen(cols, rows) ==
    [Cols |-> cols, Rows |-> rows, CursorX |-> I64(0), CursorY |-> I64(0),
     Buffer |-> newBuffer(cols, rows), attr |-> DefaultAttr,
     savedX |-> I64(0), savedY |-> I64(0), state |-> stateNormal, csiBuf |-> <<>>,
     resp |-> <<>>, fault |-> FALSE]

ScreenReset(s) ==
    [s EXCEPT !.CursorX = I64(0), !.CursorY = I64(0), !.attr = DefaultAttr,
              !.state = stateNormal, !.csiBuf = <<>>,
              !.Buffer = newBuffer(s.Cols, s.Rows)]

(* 0 <= v < n: v is a valid index of a slice of length n *)
IndexOK(v, n) == ~I64IsNeg(v) /\ I64Less(v, I64(n))

(* copy(s.Buffer, s.Buffer[1:]); s.Buffer[s.Rows-1] = s.newRow() *)
scrollUp(s) ==
    [s EXCEPT !.Buffer = [y \in 1..s.Rows |->
                            IF y < s.Rows THEN s.Buffer[y + 1] ELSE newRow(s.Cols)]]

(* copy(s.Buffer[1:], s.Buffer); s.Buffer[0] = s.newRow() *)
scrollDown(s) ==
    [s EXCEPT !.Buffer = [y \in 1..s.Rows |->
                            IF y > 1 THEN s.Buffer[y - 1] ELSE newRow(s.Cols)]]

lineFeed(s) ==
    IF I64Less(s.CursorY, I64(s.Rows - 1))
    THEN [s EXCEPT !.CursorY = I64Add(@, I64(1))]
    ELSE scrollUp(s)

reverseLF(s) ==
    IF I64Less(I64(0), s.CursorY)
    THEN [s EXCEPT !.CursorY = I64Sub(@, I64(1))]
    ELSE scrollDown(s)

putChar(s, ch) ==
    LET s1 == IF ~I64Less(s.CursorX, I64(s.Cols))
              THEN lineFeed([s EXCEPT !.CursorX = I64(0)])
              ELSE s
    IN IF ~IndexOK(s1.CursorY, s1.Rows) \/ ~IndexOK(s1.CursorX, s1.Cols)
       THEN [s1 EXCEPT !.fault = TRUE]
       ELSE [s1 EXCEPT !.Buffer[I64Int(s1.CursorY) + 1][I64Int(s1.CursorX) + 1] =
                            [Char |-> ch, Attr |-> s1.attr],
                       !.CursorX = I64Add(@, I64(1))]

(* strings.TrimLeft(raw, "?") *)
RECURSIVE TrimLeftQ(_)
TrimLeftQ(str) ==
    IF str # <<>> /\ Head(str) = 63 THEN TrimLeftQ(Tail(str)) ELSE str

(* strings.Split(raw, ";") *)
RECURSIVE SplitSemi(_)
SplitSemi(str) ==
    LET at == {k \in 1..Len(str) : str[k] = 59} IN
    IF at = {} THEN <<str>>
    ELSE LET k == CHOOSE j \in at : \A i \in at : j <= i IN
         <<SubSeq(str, 1, k - 1)>> \o SplitSemi(SubSeq(str, k + 1, Len(str)))

parseParams(s, defaultVal) ==
    LET raw == TrimLeftQ(s.csiBuf) IN
    IF raw = <<>> THEN <<I64(defaultVal)>>
    ELSE LET parts == SplitSemi(raw) IN
         [k \in 1..Len(parts) |->
            IF parts[k] = <<>> \/ Atoi(parts[k]).err THEN I64(defaultVal)
            ELSE Atoi(parts[k]).val]

safeParam(params, index, defaultVal) ==
    IF index < Len(params) THEN params[index + 1] ELSE I64(defaultVal)

(* uint8(v): the low byte of the word *)
Uint8(v) == v[4] % 256

(* sgr: i is the 0-based index of the Go loop *)
RECURSIVE sgrLoop(_, _, _)
sgrLoop(attr, params, i) ==
    LET n == Len(params) IN
    IF i >= n THEN attr
    ELSE
      LET p == IF I64Small(params[i + 1]) THEN I64Int(params[i + 1]) ELSE -1
          is5 == i + 1 < n /\ params[i + 2] = I64(5) /\ i + 2 < n
          is2 == i + 1 < n /\ params[i + 2] = I64(2) /\ i + 4 < n
          skip == IF p \in {38, 48} THEN (IF is5 THEN 2 ELSE IF is2 THEN 4 ELSE 0) ELSE 0
          ext == IF is5 THEN IndexColor(params[i + 3])
                 ELSE RGBColor(Uint8(params[i + 3]), Uint8(params[i + 4]), Uint8(params[i + 5]))
          next ==
            CASE p = 0 -> DefaultAttr
              [] p = 1 -> [attr EXCEPT !.Bold = TRUE]
              [] p = 2 -> [attr EXCEPT !.Bold = FALSE]
              [] p = 4 -> [attr EXCEPT !.Underline = TRUE]
              [] p \in {5, 6} -> [attr EXCEPT !.Blink = TRUE]
              [] p = 7 -> [attr EXCEPT !.Reverse = TRUE]
              [] p = 22 -> [attr EXCEPT !.Bold = FALSE]
              [] p = 24 -> [attr EXCEPT !.Underline = FALSE]
              [] p = 25 -> [attr EXCEPT !.Blink = FALSE]
              [] p = 27 -> [attr EXCEPT !.Reverse = FALSE]
              [] p >= 30 /\ p <= 37 -> [attr EXCEPT !.FG = IndexColor(I64(p - 30))]
              [] p = 38 -> IF is5 \/ is2 THEN [attr EXCEPT !.FG = ext] ELSE attr
              [] p = 39 -> [attr EXCEPT !.FG = IndexColor(I64(DefaultFG))]
              [] p >= 40 /\ p <= 47 -> [attr EXCEPT !.BG = IndexColor(I64(p - 40))]
              [] p = 48 -> IF is5 \/ is2 THEN [attr EXCEPT !.BG = ext] ELSE attr
              [] p = 49 -> [attr EXCEPT !.BG = IndexColor(I64(DefaultBG))]
              [] p >= 90 /\ p <= 97 -> [attr EXCEPT !.FG = IndexColor(I64(p - 90 + 8))]
              [] p >= 100 /\ p <= 107 -> [attr EXCEPT !.BG = IndexColor(I64(p - 100 + 8))]
              [] OTHER -> attr
      IN sgrLoop(next, params, i + skip + 1)

sgr(s, params) == [s EXCEPT !.attr = sgrLoop(s.attr, params, 0)]

(* for x := s.CursorX; x < s.Cols; x++ { s.Buffer[s.CursorY][x] = NewCell() } *)
clearFromCursor(s) ==
    IF ~I64Less(s.CursorX, I64(s.Cols)) THEN s
    ELSE IF I64IsNeg(s.CursorX) \/ ~IndexOK(s.CursorY, s.Rows) THEN [s EXCEPT !.fault = TRUE]
    ELSE [s EXCEPT !.Buffer[I64Int(s.CursorY) + 1] =
                      [x \in 1..s.Cols |-> IF x >= I64Int(s.CursorX) + 1 THEN NewCell ELSE @[x]]]

(* for x := 0; x <= s.CursorX; x++ { s.Buffer[s.CursorY][x] = NewCell() } *)
clearToCursor(s) ==
    IF I64IsNeg(s.CursorX) THEN s
    ELSE IF ~IndexOK(s.CursorY, s.Rows) \/ ~IndexOK(s.CursorX, s.Cols)
    THEN [s EXCEPT !.fault = TRUE]
    ELSE [s EXCEPT !.Buffer[I64Int(s.CursorY) + 1] =
                      [x \in 1..s.Cols |-> IF x <= I64Int(s.CursorX) + 1 THEN NewCell ELSE @[x]]]

eraseDisplay(s, mode) ==
    CASE mode = I64(0) ->
           LET s1 == clearFromCursor(s)
               y0 == I64Add(s1.CursorY, I64(1))
           IN IF s1.fault \/ ~I64Less(y0, I64(s1.Rows)) THEN s1
              ELSE IF I64IsNeg(y0) THEN [s1 EXCEPT !.fault = TRUE]
              ELSE [s1 EXCEPT !.Buffer = [y \in 1..s1.Rows |->
                        IF y >= I64Int(y0) + 1 THEN newRow(s1.Cols) ELSE @[y]]]
      [] mode = I64(1) ->
           LET s1 == clearToCursor(s) IN
           IF s1.fault \/ ~I64Less(I64(0), s1.CursorY) THEN s1
           ELSE IF I64Less(I64(s1.Rows), s1.CursorY) THEN [s1 EXCEPT !.fault = TRUE]
           ELSE [s1 EXCEPT !.Buffer = [y \in 1..s1.Rows |->
                     IF y <= I64Int(s1.CursorY) THEN newRow(s1.Cols) ELSE @[y]]]
      [] mode = I64(2) -> [s EXCEPT !.Buffer = newBuffer(s.Cols, s.Rows)]
      [] OTHER -> s

eraseLine(s, mode) ==
    CASE mode = I64(0) -> clearFromCursor(s)
      [] mode = I64(1) -> clearToCursor(s)
      [] mode = I64(2) ->
           IF ~IndexOK(s.CursorY, s.Rows) THEN [s EXCEPT !.fault = TRUE]
           ELSE [s EXCEPT !.Buffer[I64Int(s.CursorY) + 1] = newRow(s.Cols)]
      [] OTHER -> s

(* `for range n { scroll }`: after Rows rounds every row is a new row, so   *)
(* the rounds beyond Rows change nothing.                                   *)
RECURSIVE scrollTimes(_, _, _)
scrollTimes(s, up, k) ==
    IF k = 0 THEN s ELSE scrollTimes(IF up THEN scrollUp(s) ELSE scrollDown(s), up, k - 1)

scrollRounds(s, n) == IF I64Less(I64(s.Rows), n) THEN s.Rows ELSE I64Int(n)

(* OnResponse is set by App.Startup, so the DSR branches are taken *)
execCSI(s, cmd) ==
    LET params == parseParams(s, 0)
        n == I64Max(I64(1), params[1])
        lastRow == I64(s.Rows - 1)
        lastCol == I64(s.Cols - 1)
    IN
    CASE cmd = 109 -> sgr(s, params)                                      \* m
      [] cmd \in {72, 102} ->                                             \* H, f
           LET r == I64Max(I64(1), safeParam(params, 0, 1))
               c == I64Max(I64(1), safeParam(params, 1, 1))
           IN [s EXCEPT !.CursorY = I64Min(I64Sub(r, I64(1)), lastRow),
                        !.CursorX = I64Min(I64Sub(c, I64(1)), lastCol)]
      [] cmd = 65 -> [s EXCEPT !.CursorY = I64Max(I64(0), I64Sub(@, n))]  \* A
      [] cmd = 66 -> [s EXCEPT !.CursorY = I64Min(lastRow, I64Add(@, n))] \* B
      [] cmd = 67 -> [s EXCEPT !.CursorX = I64Min(lastCol, I64Add(@, n))] \* C
      [] cmd = 68 -> [s EXCEPT !.CursorX = I64Max(I64(0), I64Sub(@, n))]  \* D
      [] cmd = 69 -> [s EXCEPT !.CursorX = I64(0),                        \* E
                               !.CursorY = I64Min(lastRow, I64Add(@, n))]
      [] cmd = 70 -> [s EXCEPT !.CursorX = I64(0),                        \* F
                               !.CursorY = I64Max(I64(0), I64Sub(@, n))]
      [] cmd = 71 -> [s EXCEPT !.CursorX = I64Min(I64Sub(n, I64(1)), lastCol)] \* G
      [] cmd = 74 -> eraseDisplay(s, params[1])                           \* J
      [] cmd = 75 -> eraseLine(s, params[1])                              \* K
      [] cmd = 83 -> scrollTimes(s, TRUE, scrollRounds(s, n))             \* S
      [] cmd = 84 -> scrollTimes(s, FALSE, scrollRounds(s, n))            \* T
      [] cmd = 115 -> [s EXCEPT !.savedX = s.CursorX, !.savedY = s.CursorY] \* s
      [] cmd = 117 -> [s EXCEPT !.CursorX = s.savedX, !.CursorY = s.savedY] \* u
      [] cmd = 110 ->                                                     \* n
           IF params[1] = I64(6)
           THEN [s EXCEPT !.resp = Append(@, <<27, 91>> \o Itoa(I64Add(s.CursorY, I64(1)))
                                        \o <<59>> \o Itoa(I64Add(s.CursorX, I64(1))) \o <<82>>)]
           ELSE IF params[1] = I64(5)
           THEN [s EXCEPT !.resp = Append(@, <<27, 91, 48, 110>>)]
           ELSE s
      [] OTHER -> s

IsParamChar(ch) == IsDigit(ch) \/ ch = 59 \/ ch = 63

(* process, case stateCSI with a parameter character *)
csiParamNoCap(s, ch) == [s EXCEPT !.csiBuf = Append(@, ch)]

csiParam(s, ch) ==
    IF Len(s.csiBuf) < MaxCSIBuf
    THEN [s EXCEPT !.csiBuf = Append(@, ch)]
    ELSE [s EXCEPT !.state = stateNormal, !.csiBuf = <<>>]

process(s, ch) ==
    CASE s.state = stateNormal ->
           (CASE ch = 27 -> [s EXCEPT !.state = stateESC]
              [] ch = 13 -> [s EXCEPT !.CursorX = I64(0)]
              [] ch = 10 -> lineFeed(s)
              [] ch = 8 -> IF I64Less(I64(0), s.CursorX)
                           THEN [s EXCEPT !.CursorX = I64Sub(@, I64(1))] ELSE s
              [] ch = 9 -> [s EXCEPT !.CursorX =
                              I64Min(I64Add(@, I64(8 - I64Rem8(@))), I64(s.Cols - 1))]
              [] ch = 7 -> s
              [] OTHER -> IF ch >= 32 THEN putChar(s, ch) ELSE s)
      [] s.state = stateESC ->
           (CASE ch = 91 -> [s EXCEPT !.state = stateCSI, !.csiBuf = <<>>]     \* [
              [] ch = 93 -> [s EXCEPT !.state = stateOSC, !.csiBuf = <<>>]     \* ]
              [] ch = 68 -> [lineFeed(s) EXCEPT !.state = stateNormal]         \* D
              [] ch = 77 -> [reverseLF(s) EXCEPT !.state = stateNormal]        \* M
              [] ch = 69 -> [lineFeed([s EXCEPT !.CursorX = I64(0)])           \* E
                               EXCEPT !.state = stateNormal]
              [] ch = 55 -> [s EXCEPT !.savedX = s.CursorX, !.savedY = s.CursorY, \* 7
                                      !.state = stateNormal]
              [] ch = 56 -> [s EXCEPT !.CursorX = s.savedX, !.CursorY = s.savedY, \* 8
                                      !.state = stateNormal]
              [] ch = 99 -> ScreenReset(s)                                     \* c
              [] OTHER -> [s EXCEPT !.state = stateNormal])
      [] s.state = stateCSI ->
           IF IsParamChar(ch) THEN csiParam(s, ch)
           ELSE [execCSI(s, ch) EXCEPT !.state = stateNormal]
      [] OTHER ->                                                              \* stateOSC
           IF ch \in {7, 27} THEN [s EXCEPT !.state = stateNormal] ELSE s

(* Feed: process every character in order; a fault ends the call *)
RECURSIVE feedLoop(_, _, _)
feedLoop(s, text, k) ==
    IF k > Len(text) \/ s.fault THEN s ELSE feedLoop(process(s, text[k]), text, k + 1)

ScreenFeed(s, text) == feedLoop(s, text, 1)

-----------------------------------------------------------------------------
(* The screen under Feed and Reset calls.  The grid is ScrCols x ScrRows.   *)
(* The texts fed are single characters, chosen by parser state so that      *)
(* every branch of process and execCSI is taken, and two longer parameter   *)
(* strings: the largest int and the DSR selector.  SGR is fed with the      *)
(* parameters that leave the current attribute at its default, so that the  *)
(* cells differ by their character only.                                    *)
ScrCols == 2
ScrRows == 2
MaxCsiLen == 2
MaxOffGrid == 2

MaxInt64Text == <<57, 50, 50, 51, 51, 55, 50, 48, 51, 54, 56, 53, 52, 55, 55, 53, 56, 48, 55>>

ControlChars == {27, 13, 10, 8, 9, 7}
EscFinals == {91, 93, 68, 77, 69, 55, 56, 99, 97}
CsiFinals == {72, 102, 65, 66, 67, 68, 69, 70, 71, 74, 75, 83, 84, 115, 117, 110, 97}
ParamChars == {49, 50, 59, 63}

FeedTexts(s) ==
    CASE s.state = stateNormal -> {<<ch>> : ch \in ControlChars \cup {97}}
      [] s.state = stateESC -> {<<ch>> : ch \in EscFinals}
      [] s.state = stateCSI ->
           {<<ch>> : ch \in CsiFinals}
           \cup (IF sgrLoop(s.attr, parseParams(s, 0), 0) = DefaultAttr THEN {<<109>>} ELSE {})
           \cup (IF Len(s.csiBuf) < MaxCsiLen THEN {<<ch>> : ch \in ParamChars} ELSE {})
           \cup (IF s.csiBuf = <<>> THEN {MaxInt64Text, <<54>>} ELSE {})
      [] OTHER -> {<<7>>, <<27>>, <<97>>}

(* the cursor bounds of the grid: 0 <= col <= Cols, 0 <= row < Rows *)
CursorOnGrid(s) ==
    /\ ~I64IsNeg(s.CursorX) /\ I64LessEq(s.CursorX, I64(s.Cols))
    /\ IndexOK(s.CursorY, s.Rows)

InitScreen ==
    /\ IdleNotScreen
    /\ screen = NewScreen(ScrCols, ScrRows)
    /\ scrOff = 0

(* Screen.Feed(text); a faulted screen takes no further call *)
FeedScreen(text) ==
    /\ ~screen.fault
    /\ scrOff < MaxOffGrid
    /\ screen' = ScreenFeed([screen EXCEPT !.resp = <<>>], text)
    /\ scrOff' = IF CursorOnGrid(screen') THEN scrOff ELSE scrOff + 1
    /\ UNCHANGED notScreen

(* Screen.Reset(), as called by App.ClearScreen *)
ResetScreen ==
    /\ ~screen.fault
    /\ screen' = ScreenReset([screen EXCEPT !.resp = <<>>])
    /\ UNCHANGED <<scrOff, notScreen>>

NextScreen ==
    \/ \E text \in FeedTexts(screen) : FeedScreen(text)
    \/ ResetScreen

SpecScreen == InitScreen /\ [][NextScreen]_vars

GridShape(s) ==
    /\ DOMAIN s.Buffer = 1..s.Rows
    /\ \A y \in 1..s.Rows : DOMAIN s.Buffer[y] = 1..s.Cols

\* C3: after any sequence of Feed and Reset calls the grid has exactly Rows
\* rows of exactly Cols cells, 0 <= cursor column <= Cols and
\* 0 <= cursor row < Rows.
C3_GridAndCursorInBounds ==
    ~screen.fault => GridShape(screen) /\ CursorOnGrid(screen)

\* C4: no sequence of fed characters makes the screen fault: every cell access
\* of putChar, eraseDisplay and eraseLine is inside the grid, also for erase
\* mode 1 with the cursor column equal to Cols.  Stated for the runs in which
\* the cursor never left its bounds, so that a fault that only follows from a
\* cursor already outside the grid (C3) does not count here.
C4_NoFault == scrOff = 0 => ~screen.fault

-----------------------------------------------------------------------------
(* ZMODEM framing (package zmodem, protocol part).                          *)
ZPAD == 42
ZDLE == 24
ZHEX == 66
ZBIN == 65
ZBIN32 == 67

ZRQINIT == 0
ZRINIT == 1
ZSINIT == 2
ZACK == 3
ZFILE == 4
ZSKIP == 5
ZNAK == 6
ZABORT == 7
ZFIN == 8
ZRPOS == 9
ZDATA == 10
ZEOF == 11
ZCAN == 16

ZCRCE == 104
ZCRCG == 105
ZCRCQ == 106
ZCRCW == 107

CANFDX == 1
CANOVIO == 2
CANFC32 == 32

MaxFileSize == <<0, 1, 0, 0>>      \* 4 * 1024 * 1024 * 1024 as a 64-bit word
MaxBufSize == 64 * 1024
BlockSize == 1024
MaxRetries == 5

zdleEscapeSet == {24, 16, 17, 19, 144, 145, 147, 13, 141, 255}

AbortSeq == <<24, 24, 24, 24, 24, 24, 24, 24, 8, 8, 8, 8, 8, 8, 8, 8>>

ZRQINITHex == <<42, 42, 24, 66, 48, 48>>     \* "**\x18B00"

(* a ^ b on bytes *)
RECURSIVE xorBits(_, _, _)
xorBits(a, b, k) ==
    IF k = 0 THEN 0
    ELSE (IF a % 2 = b % 2 THEN 0 ELSE 1) + 2 * xorBits(a \div 2, b \div 2, k - 1)

XorTable == [a \in 0..255 |-> [b \in 0..255 |-> xorBits(a, b, 8)]]

Xor8(a, b) == XorTable[a][b]
Xor16(a, b) == Xor8(a \div 256, b \div 256) * 256 + Xor8(a % 256, b % 256)

(* CRC16 CCITT, polynomial 0x1021 *)
RECURSIVE crc16Step(_, _)
crc16Step(crc, j) ==
    IF j = 0 THEN crc
    ELSE crc16Step(IF crc >= 32768 THEN Xor16((crc * 2) % 65536, 4129)
                   ELSE (crc * 2) % 65536, j - 1)

crc16Table == [i \in 0..255 |-> crc16Step(i * 256, 8)]

(* one round of the loop body *)
crc16Byte(crc, b) == Xor16((crc * 256) % 65536, crc16Table[Xor8(crc \div 256, b)])

(* the loop `for _, b := range data` over data[lo..hi], run as its first half *)
(* followed by its second half; the accumulator is a value (crc >= 0) before *)
(* the second half starts                                                    *)
RECURSIVE crc16Loop(_, _, _, _)
crc16Loop(data, lo, hi, crc) ==
    IF crc >= 0 /\ lo > hi THEN crc
    ELSE IF lo = hi THEN crc16Byte(crc, data[lo])
    ELSE crc16Loop(data, (lo + hi) \div 2 + 1, hi,
                   crc16Loop(data, lo, (lo + hi) \div 2, crc))

CRC16(data, initial) == crc16Loop(data, 1, Len(data), initial)

(* CRC32, polynomial 0xEDB88320.  A uint32 is the sequence of its four      *)
(* bytes, least significant first (the layout PutUint32 little endian       *)
(* writes).                                                                 *)
U32Xor(a, b) == [k \in 1..4 |-> Xor8(a[k], b[k])]
U32Shr1(a) ==
    [k \in 1..4 |-> a[k] \div 2 + (IF k < 4 THEN (a[k + 1] % 2) * 128 ELSE 0)]
U32Shr8(a) == <<a[2], a[3], a[4], 0>>
U32Ones == <<255, 255, 255, 255>>
crc32Poly == <<32, 131, 184, 237>>

RECURSIVE crc32Step(_, _)
crc32Step(crc, j) ==
    IF j = 0 THEN crc
    ELSE crc32Step(IF crc[1] % 2 = 1 THEN U32Xor(U32Shr1(crc), crc32Poly)
                   ELSE U32Shr1(crc), j - 1)

crc32Table == [i \in 0..255 |-> crc32Step(<<i, 0, 0, 0>>, 8)]

(* one round of the loop body *)
crc32Byte(crc, b) == U32Xor(crc32Table[Xor8(crc[1], b)], U32Shr8(crc))

(* the same loop for the CRC-32: first half, then second half *)
RECURSIVE crc32Loop(_, _, _, _)
crc32Loop(data, lo, hi, crc) ==
    IF Len(crc) = 4 /\ lo > hi THEN crc
    ELSE IF lo = hi THEN crc32Byte(crc, data[lo])
    ELSE crc32Loop(data, (lo + hi) \div 2 + 1, hi,
                   crc32Loop(data, lo, (lo + hi) \div 2, crc))

CRC32(data, initial) == U32Xor(crc32Loop(data, 1, Len(data), initial), U32Ones)

(* binary.BigEndian.PutUint16 / Uint16 *)
BE16(v) == <<v \div 256, v % 256>>

(* the loop over data, taken as its first half followed by its second half *)
zdleEscapeByte(b) == IF b \in zdleEscapeSet \/ b = ZDLE THEN <<ZDLE, Xor8(b, 64)>> ELSE <<b>>

RECURSIVE ZDLEEscape(_)
ZDLEEscape(data) ==
    IF data = <<>> THEN <<>>
    ELSE IF Len(data) = 1 THEN zdleEscapeByte(data[1])
    ELSE ZDLEEscape(SubSeq(data, 1, Len(data) \div 2))
         \o ZDLEEscape(SubSeq(data, Len(data) \div 2 + 1, Len(data)))

(* fmt.Sprintf("%02x", b) *)
hexDigit(v) == IF v < 10 THEN 48 + v ELSE 97 + (v - 10)
hexByte(b) == <<hexDigit(b \div 16), hexDigit(b % 16)>>

RECURSIVE hexBytes(_)
hexBytes(data) == IF data = <<>> THEN <<>> ELSE hexByte(Head(data)) \o hexBytes(Tail(data))

BuildHexHeader(frameType, p0, p1, p2, p3) ==
    LET hdr == <<frameType, p0, p1, p2, p3>>
        crcVal == CRC16(hdr, 0)
    IN <<ZPAD, ZPAD, ZDLE, ZHEX>> \o hexBytes(hdr) \o hexByte(crcVal \div 256)
       \o hexByte(crcVal % 256) \o <<13, 10>>

BuildBinHeader(frameType, p0, p1, p2, p3, useCRC32) ==
    LET hdr == <<frameType, p0, p1, p2, p3>> IN
    IF useCRC32
    THEN <<ZPAD, ZDLE, ZBIN32>> \o ZDLEEscape(hdr) \o ZDLEEscape(CRC32(hdr, U32Ones))
    ELSE <<ZPAD, ZDLE, ZBIN>> \o ZDLEEscape(hdr) \o ZDLEEscape(BE16(CRC16(hdr, 0)))

(* the four bytes p0..p3 of uint32(position), position a 64-bit word *)
PosBytes(position) ==
    <<position[4] % 256, position[4] \div 256, position[3] % 256, position[3] \div 256>>

BuildPosHeader(frameType, position) ==
    LET pb == PosBytes(position) IN BuildHexHeader(frameType, pb[1], pb[2], pb[3], pb[4])

BuildBinPosHeader(frameType, position, useCRC32) ==
    LET pb == PosBytes(position) IN
    BuildBinHeader(frameType, pb[1], pb[2], pb[3], pb[4], useCRC32)

BuildDataSubpacket(data, endType, useCRC32) ==
    LET checkData == Append(data, endType) IN
    ZDLEEscape(data) \o <<ZDLE, endType>>
    \o (IF useCRC32 THEN ZDLEEscape(CRC32(checkData, U32Ones))
        ELSE ZDLEEscape(BE16(CRC16(checkData, 0))))

(* Parsers.  A parse result is a record with ok = FALSE for Go's nil.       *)
(* Sequences are 1-based: the Go index idx is the model index idx + 1, and  *)
(* Consumed is a count of bytes.                                            *)
NoParse == [ok |-> FALSE]

hexValDigitsOnly(c) == IF c >= 48 /\ c <= 57 THEN c - 48 ELSE 0

hexVal(c) ==
    CASE c >= 48 /\ c <= 57 -> c - 48
      [] c >= 97 /\ c <= 102 -> c - 97 + 10
      [] c >= 65 /\ c <= 70 -> c - 65 + 10
      [] OTHER -> 0

(* the least element of a non-empty set of positions *)
MinOf(S) == CHOOSE p \in S : \A q \in S : p <= q

(* idx after `for idx < n && data[idx] in {CR, LF, XON, 0x8A} { idx++ }` *)
RECURSIVE skipTrail(_, _)
skipTrail(data, idx) ==
    IF idx < Len(data) /\ data[idx + 1] \in {13, 10, 17, 138}
    THEN skipTrail(data, idx + 1) ELSE idx

(* the index of the first match of a search loop, 1-based; 0 for not found *)
firstOf(hits) == IF hits = {} THEN 0 ELSE MinOf(hits)

hexHeaderOf(data, idx, vals) ==
    IF vals[6] * 256 + vals[7] # CRC16(SubSeq(vals, 1, 5), 0) THEN NoParse
    ELSE [ok |-> TRUE, FrameType |-> vals[1], P0 |-> vals[2],
          P1 |-> vals[3], P2 |-> vals[4], P3 |-> vals[5],
          Consumed |-> skipTrail(data, idx + 14)]

hexHeaderAt(data, at) ==
    IF at = 0 THEN NoParse
    ELSE IF at + 3 + 14 > Len(data) THEN NoParse
    ELSE hexHeaderOf(data, at + 3,
                     [i \in 1..7 |-> hexVal(data[at + 3 + 2 * i - 1]) * 16
                                     + hexVal(data[at + 3 + 2 * i])])

ParseHexHeader(data) ==
    hexHeaderAt(data, firstOf({p \in 1..(Len(data) - 3) :
                                  /\ data[p] = ZPAD /\ data[p + 1] = ZPAD
                                  /\ data[p + 2] = ZDLE /\ data[p + 3] = ZHEX}))

(* the unescape loops of ParseBinHeader and ParseDataSubpacket:             *)
(* for len(out) < want && idx < n { ... }                                   *)
RECURSIVE unescape(_, _, _, _)
unescape(data, idx, want, out) ==
    IF Len(out) >= want \/ idx >= Len(data) THEN [bytes |-> out, idx |-> idx]
    ELSE IF data[idx + 1] = ZDLE
         THEN unescape(data, idx + 2, want,
                       IF idx + 1 < Len(data) THEN Append(out, Xor8(data[idx + 2], 64)) ELSE out)
         ELSE unescape(data, idx + 1, want, Append(out, data[idx + 1]))

crcLenOf(isCRC32) == IF isCRC32 THEN 4 ELSE 2

binHeaderOf(h, c, isCRC32) ==
    IF Len(c.bytes) < crcLenOf(isCRC32) THEN NoParse
    ELSE IF isCRC32 /\ c.bytes # CRC32(h.bytes, U32Ones) THEN NoParse
    ELSE IF ~isCRC32 /\ c.bytes # BE16(CRC16(h.bytes, 0)) THEN NoParse
    ELSE [ok |-> TRUE, FrameType |-> h.bytes[1], P0 |-> h.bytes[2],
          P1 |-> h.bytes[3], P2 |-> h.bytes[4], P3 |-> h.bytes[5],
          Consumed |-> c.idx, IsCRC32 |-> isCRC32]

binHeaderBody(data, h, isCRC32) ==
    IF Len(h.bytes) < 5 THEN NoParse
    ELSE binHeaderOf(h, unescape(data, h.idx, crcLenOf(isCRC32), <<>>), isCRC32)

binHeaderAt(data, at) ==
    IF at = 0 THEN NoParse
    ELSE binHeaderBody(data, unescape(data, at + 2, 5, <<>>), data[at + 2] = ZBIN32)

ParseBinHeader(data) ==
    binHeaderAt(data, firstOf({p \in 1..(Len(data) - 2) :
                                  /\ data[p] = ZPAD /\ data[p + 1] = ZDLE
                                  /\ data[p + 2] \in {ZBIN, ZBIN32}}))

(* the payload loop of ParseDataSubpacket, `for idx < n { ... }`.  st holds  *)
(* idx, payload, endType and foundEnd, and done once the loop has ended or  *)
(* nil was returned from inside it.                                         *)
payloadRound(data, st) ==
    IF st.idx >= Len(data) THEN [st EXCEPT !.done = TRUE]
    ELSE IF data[st.idx + 1] = ZDLE
         THEN IF st.idx + 1 >= Len(data) THEN [st EXCEPT !.done = TRUE]
              ELSE IF data[st.idx + 2] \in {ZCRCE, ZCRCG, ZCRCQ, ZCRCW}
                   THEN [st EXCEPT !.done = TRUE, !.found = TRUE,
                                   !.endType = data[st.idx + 2], !.idx = st.idx + 2]
                   ELSE [st EXCEPT !.idx = @ + 2,
                                   !.payload = Append(@, Xor8(data[st.idx + 2], 64))]
         ELSE [st EXCEPT !.idx = @ + 1, !.payload = Append(@, data[st.idx + 1])]

(* n rounds of the loop, run as the first half of them followed by the rest *)
RECURSIVE payloadRounds(_, _, _)
payloadRounds(data, st, n) ==
    IF st.done \/ n = 0 THEN st
    ELSE IF n = 1 THEN payloadRound(data, st)
    ELSE payloadRounds(data, payloadRounds(data, st, n \div 2), n - n \div 2)

(* the loop from idx on; it ends within len(data) + 1 rounds *)
payloadLoop(data, idx, payload) ==
    payloadRounds(data, [done |-> FALSE, found |-> FALSE, idx |-> idx,
                         payload |-> payload, endType |-> 0], Len(data) + 1)

subpacketCrc16Only(pl, c, useCRC32) ==
    IF Len(c.bytes) < crcLenOf(useCRC32) THEN NoParse
    ELSE IF SubSeq(c.bytes, 1, 2) # BE16(CRC16(Append(pl.payload, pl.endType), 0)) THEN NoParse
    ELSE [ok |-> TRUE, Payload |-> pl.payload, EndType |-> pl.endType, Consumed |-> c.idx]

subpacketOf(pl, c, useCRC32) ==
    IF Len(c.bytes) < crcLenOf(useCRC32) THEN NoParse
    ELSE IF useCRC32 /\ c.bytes # CRC32(Append(pl.payload, pl.endType), U32Ones) THEN NoParse
    ELSE IF ~useCRC32 /\ c.bytes # BE16(CRC16(Append(pl.payload, pl.endType), 0)) THEN NoParse
    ELSE [ok |-> TRUE, Payload |-> pl.payload, EndType |-> pl.endType, Consumed |-> c.idx]

subpacketAt(data, pl, useCRC32) ==
    IF ~pl.found THEN NoParse
    ELSE subpacketOf(pl, unescape(data, pl.idx, crcLenOf(useCRC32), <<>>), useCRC32)

(* a buffer without ZDLE holds no end type: the payload loop runs to its    *)
(* end and nil is returned                                                  *)
ParseDataSubpacket(data, useCRC32) ==
    IF \A k \in 1..Len(data) : data[k] # ZDLE THEN NoParse
    ELSE subpacketAt(data, payloadLoop(data, 0, <<>>), useCRC32)

(* uint32(p0) | uint32(p1)<<8 | uint32(p2)<<16 | uint32(p3)<<24, as a word *)
PositionFromParams(p0, p1, p2, p3) == <<0, 0, p3 * 256 + p2, p1 * 256 + p0>>

containsBytes(data, pattern) ==
    \E i \in 0..(Len(data) - Len(pattern)) :
        \A j \in 1..Len(pattern) : data[i + j] = pattern[j]

Detect(data) ==
    \/ containsBytes(data, ZRQINITHex)
    \/ containsBytes(data, <<42, 24, 65, 0>>)
    \/ containsBytes(data, <<42, 24, 67, 0>>)

-----------------------------------------------------------------------------
(* File paths (path/filepath with '/' as separator), as byte strings.       *)
Slash == 47
Dot == 46

(* strings.ReplaceAll(name, "\\", "/") *)
ReplaceBackslash(name) == [k \in 1..Len(name) |-> IF name[k] = 92 THEN Slash ELSE name[k]]

(* the elements of a path between slashes, empty ones included *)
RECURSIVE SplitSlash(_)
SplitSlash(path) ==
    LET at == {k \in 1..Len(path) : path[k] = Slash} IN
    IF at = {} THEN <<path>>
    ELSE <<SubSeq(path, 1, MinOf(at) - 1)>>
         \o SplitSlash(SubSeq(path, MinOf(at) + 1, Len(path)))

RECURSIVE JoinSlash(_)
JoinSlash(elems) ==
    IF elems = <<>> THEN <<>>
    ELSE IF Len(elems) = 1 THEN elems[1]
    ELSE elems[1] \o <<Slash>> \o JoinSlash(Tail(elems))

(* filepath.Clean: the element stack after dropping "", "." and resolving ".." *)
RECURSIVE cleanLoop(_, _, _)
cleanLoop(elems, out, rooted) ==
    IF elems = <<>> THEN out
    ELSE LET e == Head(elems) IN
         cleanLoop(Tail(elems),
                   CASE e = <<>> \/ e = <<Dot>> -> out
                     [] e = <<Dot, Dot>> ->
                          IF out # <<>> /\ out[Len(out)] # <<Dot, Dot>>
                          THEN SubSeq(out, 1, Len(out) - 1)
                          ELSE IF rooted THEN out ELSE Append(out, e)
                     [] OTHER -> Append(out, e),
                   rooted)

Clean(path) ==
    IF path = <<>> THEN <<Dot>>
    ELSE LET rooted == path[1] = Slash
             elems == cleanLoop(SplitSlash(path), <<>>, rooted)
         IN IF rooted THEN <<Slash>> \o JoinSlash(elems)
            ELSE IF elems = <<>> THEN <<Dot>> ELSE JoinSlash(elems)

(* filepath.Join(dir, name) for two elements *)
Join(dir, name) ==
    IF dir = <<>> /\ name = <<>> THEN <<>>
    ELSE IF dir = <<>> THEN Clean(name)
    ELSE IF name = <<>> THEN Clean(dir)
    ELSE Clean(dir \o <<Slash>> \o name)

(* filepath.Base *)
RECURSIVE TrimTrailingSlashes(_)
TrimTrailingSlashes(path) ==
    IF path # <<>> /\ path[Len(path)] = Slash
    THEN TrimTrailingSlashes(SubSeq(path, 1, Len(path) - 1)) ELSE path

Base(path) ==
    IF path = <<>> THEN <<Dot>>
    ELSE LET p == TrimTrailingSlashes(path)
             at == {k \in 1..Len(p) : p[k] = Slash}
             last == IF at = {} THEN p
                     ELSE SubSeq(p, (CHOOSE k \in at : \A j \in at : j <= k) + 1, Len(p))
         IN IF last = <<>> THEN <<Slash>> ELSE last

(* filepath.Ext: from the last dot of the last element *)
Ext(path) ==
    LET elemStart == IF \E k \in 1..Len(path) : path[k] = Slash
                     THEN (CHOOSE k \in 1..Len(path) :
                              path[k] = Slash /\ \A j \in (k + 1)..Len(path) : path[j] # Slash) + 1
                     ELSE 1
        dots == {k \in elemStart..Len(path) : path[k] = Dot}
    IN IF dots = {} THEN <<>>
       ELSE SubSeq(path, CHOOSE k \in dots : \A j \in dots : j <= k, Len(path))

(* the working directory of the process and filepath.Abs *)
Cwd == <<Slash, 119>>                        \* "/w"
Abs(path) == IF path # <<>> /\ path[1] = Slash THEN Clean(path) ELSE Join(Cwd, path)

HasPrefix(str, prefix) ==
    Len(prefix) <= Len(str) /\ SubSeq(str, 1, Len(prefix)) = prefix

(* safeFilenameRe = [^a-zA-Z0-9._\-], ReplaceAllString(name, "_") *)
IsSafeChar(c) ==
    \/ c >= 97 /\ c <= 122
    \/ c >= 65 /\ c <= 90
    \/ c >= 48 /\ c <= 57
    \/ c \in {46, 95, 45}
ReplaceUnsafe(name) == [k \in 1..Len(name) |-> IF IsSafeChar(name[k]) THEN name[k] ELSE 95]

DownloadName == <<100, 111, 119, 110, 108, 111, 97, 100>>     \* "download"

(* the sanitization without its rule for "", ".", ".." and hidden names *)
sanitizeNoBase(name) ==
    LET base == ReplaceUnsafe(ReplaceBackslash(name)) IN
    IF base = <<>> \/ base = <<Dot>> \/ base = <<Dot, Dot>> \/ HasPrefix(base, <<Dot>>)
    THEN DownloadName ELSE base

sanitizeKeepDots(name) == ReplaceUnsafe(Base(ReplaceBackslash(name)))

(* parseFileInfo, the sanitization of the file name (FIND-002) *)
sanitizeFilename(name) ==
    LET base == ReplaceUnsafe(Base(ReplaceBackslash(name))) IN
    IF base = <<>> \/ base = <<Dot>> \/ base = <<Dot, Dot>> \/ HasPrefix(base, <<Dot>>)
    THEN DownloadName ELSE base

-----------------------------------------------------------------------------
(* ZMODEM receiver (package zmodem, Receiver).  A receiver is a record of   *)
(* the struct's fields plus the world its calls act on:                     *)
(*   fs      the regular files below the working tree, absolute path ->     *)
(*           content                                                        *)
(*   sent    the byte strings given to SendFunc, in order                   *)
(*   events  the callbacks made (OnStart, OnProgress, OnComplete, OnError,  *)
(*           OnFinished), in order                                          *)
(*   creates the paths given to os.Create, in order                         *)
(*   clock   time.Now(), in seconds                                         *)
(* fileHandle is NoFile for nil, else the open file's path and offset.      *)
RxIdle == 0
RxInit == 1
RxWaitZFile == 2
RxReceiving == 3
RxDone == 4

NoFile == [open |-> FALSE]

NewReceiver(downloadDir, files, now) ==
    [DownloadDir |-> downloadDir, State |-> RxIdle, UseCRC32 |-> FALSE,
     Filename |-> <<>>, Filepath |-> <<>>, Filesize |-> I64(0),
     BytesReceived |-> I64(0), StartTime |-> 0, fileHandle |-> NoFile, buf |-> <<>>,
     fs |-> files, sent |-> <<>>, events |-> <<>>, creates |-> <<>>, clock |-> now]

(* cleanup left out *)
rxCleanupNone(r) == r

rxCleanup(r) == [r EXCEPT !.fileHandle = NoFile]

RxCancel(r) ==
    [rxCleanup(r) EXCEPT !.sent = Append(@, AbortSeq), !.State = RxDone,
                         !.events = Append(@, [type |-> "finished"])]

ZrinitFlags == CANFDX + CANOVIO + CANFC32       \* CANFDX | CANOVIO | CANFC32

(* os.Stat finds the path: a regular file of fs, or a directory on the way  *)
(* to the download directory (os.MkdirAll made them)                        *)
IsDir(r, abs) ==
    LET dl == Abs(r.DownloadDir) IN abs = dl \/ abs = <<Slash>> \/ HasPrefix(dl, abs \o <<Slash>>)
PathExists(r, path) == Abs(path) \in DOMAIN r.fs \/ IsDir(r, Abs(path))

(* fmt.Sprintf("%s_%d%s", nameOnly, counter, ext) and the loop around it *)
RECURSIVE freePath(_, _, _, _)
freePath(r, nameOnly, ext, counter) ==
    LET cand == nameOnly \o <<95>> \o Itoa(I64(counter)) \o ext IN
    IF PathExists(r, cand) THEN freePath(r, nameOnly, ext, counter + 1) ELSE cand

(* splitNull *)
RECURSIVE splitNull(_)
splitNull(data) ==
    LET at == {k \in 1..Len(data) : data[k] = 0} IN
    IF at = {} THEN (IF data = <<>> THEN <<>> ELSE <<data>>)
    ELSE <<SubSeq(data, 1, MinOf(at) - 1)>> \o splitNull(SubSeq(data, MinOf(at) + 1, Len(data)))

(* strings.Fields(s)[0]: the first run of non-space bytes, <<>> if none *)
IsSpace(c) == c \in {32, 9, 10, 11, 12, 13}
FirstField(str) ==
    LET ns == {k \in 1..Len(str) : ~IsSpace(str[k])} IN
    IF ns = {} THEN <<>>
    ELSE LET a == MinOf(ns)
             sp == {k \in a..Len(str) : IsSpace(str[k])}
         IN SubSeq(str, a, IF sp = {} THEN Len(str) ELSE MinOf(sp) - 1)

(* fmt.Sscanf(field, "%d", &size) followed by the test size >= 0: the       *)
(* decimal digits at the start of the field after an optional sign; err for *)
(* no digit, for a value over 2^63-1 and for a negative value.              *)
ScanSize(field) ==
    LET signed == field # <<>> /\ field[1] \in {43, 45}
        body == IF signed THEN Tail(field) ELSE field
        nd == {k \in 1..Len(body) : ~IsDigit(body[k])}
        num == Atoi(SubSeq(body, 1, IF nd = {} THEN Len(body) ELSE MinOf(nd) - 1))
    IN IF signed /\ field[1] = 45 /\ ~num.err /\ num.val # I64(0)
       THEN [err |-> TRUE, val |-> I64(0)] ELSE num

(* os.File.Write at the handle's offset; a gap is filled with zero bytes.   *)
(* Contents are followed for offsets the model's integers hold.             *)
WriteAt(content, pos, payload) ==
    LET end == pos + Len(payload)
        size == IF end > Len(content) THEN end ELSE Len(content)
    IN [k \in 1..size |->
          IF k > pos /\ k <= end THEN payload[k - pos]
          ELSE IF k <= Len(content) THEN content[k] ELSE 0]

fileWrite(r, payload) ==
    LET h == r.fileHandle IN
    [r EXCEPT !.fs = IF I64Small(h.pos)
                     THEN [@ EXCEPT ![h.path] = WriteAt(@, I64Int(h.pos), payload)]
                     ELSE @,
              !.fileHandle.pos = I64Add(@, I64(Len(payload)))]

(* parseFileInfo, from os.Create on: r2 has Filepath set *)
createFile(r2, realTarget) ==
    IF IsDir(r2, realTarget)
    THEN RxCancel([r2 EXCEPT !.events = Append(@, [type |-> "error", msg |-> "create"])])
    ELSE [r2 EXCEPT !.fs = [q \in DOMAIN @ \cup {realTarget} |->
                               IF q = realTarget THEN <<>> ELSE @[q]],
                    !.fileHandle = [open |-> TRUE, path |-> realTarget, pos |-> I64(0)],
                    !.BytesReceived = I64(0),
                    !.StartTime = r2.clock,
                    !.events = Append(@, [type |-> "start", name |-> r2.Filename,
                                          size |-> r2.Filesize]),
                    !.sent = Append(@, BuildPosHeader(ZRPOS, I64(0))),
                    !.State = RxReceiving]

openTarget(r1, target) ==
    createFile([r1 EXCEPT !.Filepath = target, !.creates = Append(@, target)], Abs(target))

(* parseFileInfo, the search for a path that does not exist yet *)
uniquePath(r1, path, ext) ==
    openTarget(r1, IF PathExists(r1, path)
                   THEN freePath(r1, SubSeq(path, 1, Len(path) - Len(ext)), ext, 1)
                   ELSE path)

(* parseFileInfo, the path traversal check *)
checkPath(r1, path, realPath, realDownload) ==
    IF ~HasPrefix(realPath, realDownload \o <<Slash>>) /\ realPath # realDownload
    THEN RxCancel([r1 EXCEPT !.Filepath = path,
                             !.events = Append(@, [type |-> "error", msg |-> "traversal"])])
    ELSE uniquePath(r1, path, Ext(path))

joinPath(r1, path) == checkPath(r1, path, Abs(path), Abs(r1.DownloadDir))

(* parseFileInfo, the name and the size of the file info *)
fileInfoOf(r, name, field, size) ==
    [r EXCEPT !.Filesize = IF field # <<>> /\ ~size.err /\ I64LessEq(size.val, MaxFileSize)
                           THEN size.val ELSE @,
              !.Filename = sanitizeFilename(name)]

fileInfoSize(r, name, field) == fileInfoOf(r, name, field, ScanSize(field))

fileInfoParts(r, parts) ==
    IF parts = <<>> THEN r
    ELSE fileInfoSize(r, parts[1], IF Len(parts) > 1 THEN FirstField(parts[2]) ELSE <<>>)

namedFile(r1) == joinPath(r1, Join(r1.DownloadDir, r1.Filename))

parseFileInfo(r, data) ==
    IF splitNull(data) = <<>> THEN r ELSE namedFile(fileInfoParts(r, splitNull(data)))

(* handleHeader, case ZDATA with an open file and an offset that is not     *)
(* BytesReceived: Seek(offset, 0) and BytesReceived = offset                *)
seekCountOnly(r, offset) == [r EXCEPT !.BytesReceived = offset]

seekTo(r, offset) == [r EXCEPT !.fileHandle.pos = offset, !.BytesReceived = offset]

rxHandleHeader(r, ftype, p0, p1, p2, p3) ==
    CASE ftype = ZRQINIT ->
           [r EXCEPT !.sent = Append(@, BuildHexHeader(ZRINIT, 0, 0, 0, ZrinitFlags)),
                     !.State = RxWaitZFile]
      [] ftype = ZFILE -> [r EXCEPT !.State = RxReceiving]
      [] ftype = ZDATA ->
           LET offset == PositionFromParams(p0, p1, p2, p3) IN
           IF r.fileHandle.open /\ offset # r.BytesReceived
           THEN [seekTo(r, offset) EXCEPT !.State = RxReceiving]
           ELSE [r EXCEPT !.State = RxReceiving]
      [] ftype = ZEOF ->
           [rxCleanup(r) EXCEPT
              !.events = IF r.Filepath # <<>>
                         THEN Append(@, [type |-> "complete", path |-> r.Filepath]) ELSE @,
              !.sent = Append(@, BuildHexHeader(ZRINIT, 0, 0, 0, ZrinitFlags)),
              !.State = RxWaitZFile]
      [] ftype = ZFIN ->
           [rxCleanup(r) EXCEPT !.sent = Append(@, BuildHexHeader(ZFIN, 0, 0, 0, 0)),
                                !.State = RxDone,
                                !.events = Append(@, [type |-> "finished"])]
      [] ftype = ZSINIT -> [r EXCEPT !.sent = Append(@, BuildHexHeader(ZACK, 0, 0, 0, 0))]
      [] ftype = ZCAN ->
           [rxCleanup(r) EXCEPT !.State = RxDone,
                                !.events = @ \o <<[type |-> "error", msg |-> "cancelled"],
                                                  [type |-> "finished"]>>]
      [] OTHER -> r

(* handleData; os.File.Write does not fail in the model *)
rxAck(r2, endType) ==
    IF endType \in {ZCRCQ, ZCRCW}
    THEN [r2 EXCEPT !.sent = Append(@, BuildPosHeader(ZACK, r2.BytesReceived))]
    ELSE r2

rxProgress(r1, endType) ==
    rxAck([r1 EXCEPT !.events = Append(@, [type |-> "progress",
                                           received |-> r1.BytesReceived,
                                           total |-> r1.Filesize])], endType)

rxHandleData(r, payload, endType) ==
    IF payload = <<>> THEN r
    ELSE IF ~r.fileHandle.open THEN parseFileInfo(r, payload)
    ELSE rxProgress([fileWrite(r, payload) EXCEPT
                        !.BytesReceived = I64Add(@, I64(Len(payload)))], endType)

(* tryParseHeader / tryParseData: the receiver after the call and the       *)
(* boolean returned                                                         *)
bufAfter(r, k) == SubSeq(r.buf, k + 1, Len(r.buf))

gotHex(r, hex) ==
    [more |-> TRUE,
     r |-> rxHandleHeader([r EXCEPT !.buf = bufAfter(r, hex.Consumed)],
                          hex.FrameType, hex.P0, hex.P1, hex.P2, hex.P3)]

gotBin(r, bin) ==
    [more |-> TRUE,
     r |-> rxHandleHeader([r EXCEPT !.buf = bufAfter(r, bin.Consumed),
                                    !.UseCRC32 = IF bin.IsCRC32 THEN TRUE ELSE @],
                          bin.FrameType, bin.P0, bin.P1, bin.P2, bin.P3)]

(* tryParseHeader, the resynchronisation on a buffer over 1024 bytes *)
skipToPad(r, at) ==
    IF at > 0 THEN [more |-> TRUE, r |-> [r EXCEPT !.buf = bufAfter(r, at)]]
    ELSE [more |-> FALSE, r |-> [r EXCEPT !.buf = <<>>]]

headerResult(r, hex, bin) ==
    IF hex.ok THEN gotHex(r, hex)
    ELSE IF bin.ok THEN gotBin(r, bin)
    ELSE IF Len(r.buf) > 1024
    THEN skipToPad(r, firstOf({i \in 1..(Len(r.buf) - 1) : r.buf[i + 1] = ZPAD}))
    ELSE [more |-> FALSE, r |-> r]

tryParseHeader(r) == headerResult(r, ParseHexHeader(r.buf), ParseBinHeader(r.buf))

dataResult(r, hex, bin, sp) ==
    IF hex.ok THEN gotHex(r, hex)
    ELSE IF bin.ok THEN gotBin(r, bin)
    ELSE IF sp.ok
    THEN [more |-> TRUE,
          r |-> rxHandleData([r EXCEPT !.buf = bufAfter(r, sp.Consumed)],
                             sp.Payload, sp.EndType)]
    ELSE [more |-> FALSE, r |-> r]

tryParseData(r) ==
    dataResult(r, ParseHexHeader(r.buf), ParseBinHeader(r.buf),
               ParseDataSubpacket(r.buf, r.UseCRC32))

RECURSIVE rxProcessLoop(_, _)
rxContinue(res, iteration) ==
    IF res.more THEN rxProcessLoop(res.r, iteration + 1) ELSE res.r

rxProcessLoop(r, iteration) ==
    IF r.buf = <<>> \/ iteration >= 200 THEN r
    ELSE CASE r.State \in {RxWaitZFile, RxInit} -> rxContinue(tryParseHeader(r), iteration)
           [] r.State = RxReceiving -> rxContinue(tryParseData(r), iteration)
           [] r.State = RxDone -> r
           [] OTHER -> rxProcessLoop(r, iteration + 1)

rxProcessBuffer(r) == rxProcessLoop(r, 0)

RxStart(r, initialData) ==
    rxProcessBuffer([r EXCEPT !.StartTime = r.clock, !.buf = initialData,
                              !.sent = Append(@, BuildHexHeader(ZRINIT, 0, 0, 0, ZrinitFlags)),
                              !.State = RxWaitZFile])

RxFeed(r, data) ==
    IF r.State \in {RxIdle, RxDone} THEN r
    ELSE rxProcessBuffer([r EXCEPT !.buf = @ \o data])

-----------------------------------------------------------------------------
(* ZMODEM sender (package zmodem, Sender): a record of the struct's fields  *)
(* plus the world its calls act on, as for the receiver (fs is read only).  *)
(*   openFiles     the files the sender got from os.Open and has not closed *)
(*   maxOpenFiles  the highest value openFiles has had                      *)
TxIdle == 0
TxWaitRInit == 1
TxWaitZRPos == 2
TxSending == 3
TxWaitAck == 4
TxWaitZFin == 5
TxDone == 6

NewSender(files, now) ==
    [State |-> TxIdle, UseCRC32 |-> FALSE, Filepath |-> <<>>, Filename |-> <<>>,
     Filesize |-> I64(0), BytesSent |-> I64(0), StartTime |-> 0, fileHandle |-> NoFile,
     buf |-> <<>>, retryCount |-> 0,
     fs |-> files, sent |-> <<>>, events |-> <<>>, clock |-> now,
     openFiles |-> 0, maxOpenFiles |-> 0]

(* os.Stat fails or finds a directory: only the files of fs are regular files *)
StartUpload(s, path) ==
    IF path \notin DOMAIN s.fs
    THEN [s EXCEPT !.events = Append(@, [type |-> "error", msg |-> "not found"])]
    ELSE IF ~I64LessEq(I64(Len(s.fs[path])), MaxFileSize)
    THEN [s EXCEPT !.events = Append(@, [type |-> "error", msg |-> "too large"])]
    ELSE [s EXCEPT !.Filepath = path, !.Filename = Base(path),
                   !.Filesize = I64(Len(s.fs[path])), !.BytesSent = I64(0),
                   !.retryCount = 0, !.StartTime = s.clock,
                   !.sent = Append(@, BuildHexHeader(ZRQINIT, 0, 0, 0, 0)),
                   !.State = TxWaitRInit]

(* cleanup with the Close left out: the pointer is dropped, the file stays open *)
txCleanupNoClose(s) == [s EXCEPT !.fileHandle = NoFile]

txCleanup(s) ==
    IF s.fileHandle.open THEN [s EXCEPT !.fileHandle = NoFile, !.openFiles = @ - 1] ELSE s

(* s.fileHandle, err = os.Open(s.Filepath) without an error *)
txOpen(s) ==
    [s EXCEPT !.fileHandle = [open |-> TRUE, path |-> s.Filepath, pos |-> I64(0)],
              !.openFiles = @ + 1,
              !.maxOpenFiles = IF s.openFiles + 1 > @ THEN s.openFiles + 1 ELSE @]

TxCancel(s) ==
    [txCleanup(s) EXCEPT !.sent = Append(@, AbortSeq), !.State = TxDone,
                         !.events = Append(@, [type |-> "finished"])]

(* "filename\0size 0 0\0" behind a binary ZFILE header, in one send *)
sendZFile(s) ==
    [s EXCEPT !.sent = Append(@, BuildBinHeader(ZFILE, 0, 0, 0, 0, s.UseCRC32)
                                 \o BuildDataSubpacket(
                                      s.Filename \o <<0>> \o Itoa(s.Filesize)
                                      \o <<32, 48, 32, 48>> \o <<0>>,
                                      ZCRCW, s.UseCRC32)),
              !.events = Append(@, [type |-> "start", name |-> s.Filename,
                                    size |-> s.Filesize])]

(* startSending, the read loop: pos is the offset of the open file *)
sentBlock(s, block) ==
    [s EXCEPT !.sent = Append(@, BuildDataSubpacket(
                                    block,
                                    IF I64LessEq(s.Filesize, s.BytesSent) THEN ZCRCE ELSE ZCRCG,
                                    s.UseCRC32)),
              !.events = Append(@, [type |-> "progress", sent |-> s.BytesSent,
                                    total |-> s.Filesize])]

readBlock(s, block) ==
    sentBlock([s EXCEPT !.BytesSent = I64Add(@, I64(Len(block)))], block)

(* the read loop with a block as large as the rest of the file *)
sendBlocksOneRead(s, pos) ==
    IF pos >= Len(s.fs[s.Filepath]) THEN s
    ELSE readBlock(s, SubSeq(s.fs[s.Filepath], pos + 1, Len(s.fs[s.Filepath])))

RECURSIVE sendBlocks(_, _)
sendBlocks(s, pos) ==
    IF pos >= Len(s.fs[s.Filepath]) THEN s
    ELSE sendBlocks(readBlock(s, SubSeq(s.fs[s.Filepath], pos + 1,
                                        IF pos + BlockSize < Len(s.fs[s.Filepath])
                                        THEN pos + BlockSize ELSE Len(s.fs[s.Filepath]))),
                    pos + BlockSize)

endOfFile(s) ==
    [txCleanup(s) EXCEPT !.sent = Append(@, BuildPosHeader(ZEOF, s.BytesSent)),
                         !.State = TxWaitAck]

(* startSending from os.Open on; an offset the model's integers do not hold *)
(* lies behind the end of the file                                          *)
sendFrom(s, offset) ==
    IF s.Filepath \notin DOMAIN s.fs
    THEN TxCancel([s EXCEPT !.events = Append(@, [type |-> "error", msg |-> "read"])])
    ELSE endOfFile(
           IF I64Small(offset)
           THEN sendBlocks([txOpen(s) EXCEPT
                               !.fileHandle.pos = offset,
                               !.BytesSent = offset, !.State = TxSending,
                               !.sent = Append(@, BuildBinPosHeader(ZDATA, offset,
                                                                    s.UseCRC32))],
                           I64Int(offset))
           ELSE [txOpen(s) EXCEPT
                    !.fileHandle.pos = offset,
                    !.BytesSent = offset, !.State = TxSending,
                    !.sent = Append(@, BuildBinPosHeader(ZDATA, offset, s.UseCRC32))])

startSending(s, offset) == sendFrom(txCleanup(s), offset)

(* handleHeader, case ZRINIT after UseCRC32 is set *)
txReceiverReady(s) ==
    CASE s.State = TxWaitRInit -> [sendZFile(s) EXCEPT !.State = TxWaitZRPos]
      [] s.State = TxWaitAck ->
           [txCleanup(s) EXCEPT
              !.events = Append(@, [type |-> "complete", path |-> s.Filepath]),
              !.sent = Append(@, BuildHexHeader(ZFIN, 0, 0, 0, 0)),
              !.State = TxWaitZFin]
      [] OTHER -> s

(* handleHeader, case ZRPOS after retryCount++ *)
txResumeOneLess(s, offset) ==
    IF s.retryCount >= MaxRetries
    THEN TxCancel([s EXCEPT !.events = Append(@, [type |-> "error", msg |-> "retries"])])
    ELSE startSending(s, offset)

txResume(s, offset) ==
    IF s.retryCount > MaxRetries
    THEN TxCancel([s EXCEPT !.events = Append(@, [type |-> "error", msg |-> "retries"])])
    ELSE startSending(s, offset)

txHandleHeader(s, ftype, p0, p1, p2, p3) ==
    CASE ftype = ZRINIT ->
           txReceiverReady([s EXCEPT !.UseCRC32 = (p3 \div CANFC32) % 2 = 1])
      [] ftype = ZRPOS ->
           txResume([s EXCEPT !.retryCount = @ + 1], PositionFromParams(p0, p1, p2, p3))
      [] ftype = ZSKIP ->
           [txCleanup(s) EXCEPT !.sent = Append(@, BuildHexHeader(ZFIN, 0, 0, 0, 0)),
                                !.State = TxDone,
                                !.events = Append(@, [type |-> "finished"])]
      [] ftype = ZFIN ->
           [s EXCEPT !.sent = Append(@, <<79, 79>>), !.State = TxDone,
                     !.events = Append(@, [type |-> "finished"])]
      [] ftype = ZCAN ->
           [txCleanup(s) EXCEPT !.State = TxDone,
                                !.events = @ \o <<[type |-> "error", msg |-> "cancelled"],
                                                  [type |-> "finished"]>>]
      [] OTHER -> s

(* Sender.processBuffer: one header per call *)
txHeaderResult(s, hex, bin) ==
    IF hex.ok
    THEN txHandleHeader([s EXCEPT !.buf = bufAfter(s, hex.Consumed)],
                        hex.FrameType, hex.P0, hex.P1, hex.P2, hex.P3)
    ELSE IF bin.ok
    THEN txHandleHeader([s EXCEPT !.buf = bufAfter(s, bin.Consumed)],
                        bin.FrameType, bin.P0, bin.P1, bin.P2, bin.P3)
    ELSE s

txProcessBuffer(s) == txHeaderResult(s, ParseHexHeader(s.buf), ParseBinHeader(s.buf))

txAppended(s) ==
    IF Len(s.buf) > MaxBufSize
    THEN TxCancel([s EXCEPT !.events = Append(@, [type |-> "error", msg |-> "overflow"])])
    ELSE txProcessBuffer(s)

TxFeed(s, data) ==
    IF s.State \in {TxIdle, TxDone} THEN s
    ELSE txAppended([s EXCEPT !.buf = @ \o data])

-----------------------------------------------------------------------------
(* The receiver under a scripted remote sender.  A script (rxScn) fixes the *)
(* download directory, the files already there, and the byte stream of the  *)
(* session: the first chunk (the one Start gets from the detector) and the  *)
(* rest, which reaches Feed cut at any places.                              *)
(*   info: ZRQINIT, ZFILE | the file-info subpacket with a chosen name      *)
(*   data: ZRQINIT, ZFILE, file info | ZDATA, data subpackets, ZEOF, ZFIN   *)
(*   junk: ZRQINIT, ZFILE | then chunks of bytes that frame nothing         *)
RecvBufSize == 8192
MaxNameLen == 4
MaxJunkFeeds == 9

NameChars == {Slash, 92, Dot, 97, 32}

RECURSIVE NamesUpTo(_)
NamesUpTo(n) ==
    IF n = 0 THEN {<<>>}
    ELSE LET shorter == NamesUpTo(n - 1) IN
         shorter \cup {Append(s, c) : s \in shorter, c \in NameChars}

DirAbs == <<Slash, 120, Slash, 100>>     \* "/x/d"
DirRel == <<100>>                         \* "d"

FileInfo(name) == name \o <<0, 51, 0>>    \* name NUL "3" NUL

RECURSIVE Subpackets(_, _)
Subpackets(payloads, w) ==
    IF payloads = <<>> THEN <<>>
    ELSE BuildDataSubpacket(Head(payloads), IF Len(payloads) = 1 THEN ZCRCE ELSE ZCRCG, w)
         \o Subpackets(Tail(payloads), w)

RECURSIVE Concat(_)
Concat(seqs) == IF seqs = <<>> THEN <<>> ELSE Head(seqs) \o Concat(Tail(seqs))

Opening(w) == BuildHexHeader(ZRQINIT, 0, 0, 0, 0) \o BuildBinHeader(ZFILE, 0, 0, 0, 0, w)

InfoScripts ==
    {[kind |-> "info", dir |-> d, files |-> f, name |-> nm, crc32 |-> TRUE,
      payloads |-> <<>>, eofHex |-> FALSE,
      pre |-> Opening(TRUE),
      rest |-> BuildDataSubpacket(FileInfo(nm), ZCRCW, TRUE)] :
        nm \in NamesUpTo(MaxNameLen), d \in {DirAbs, DirRel},
        f \in {{}, {<<97>>}}}

DataScripts ==
    {[kind |-> "data", dir |-> DirAbs, files |-> {}, name |-> <<97>>, crc32 |-> w,
      payloads |-> pl, eofHex |-> eh,
      pre |-> Opening(w) \o BuildDataSubpacket(FileInfo(<<97>>), ZCRCW, w),
      rest |-> BuildBinPosHeader(ZDATA, I64(0), w) \o Subpackets(pl, w)
               \o (IF eh THEN BuildPosHeader(ZEOF, I64(Len(Concat(pl))))
                   ELSE BuildBinPosHeader(ZEOF, I64(Len(Concat(pl))), w))
               \o BuildHexHeader(ZFIN, 0, 0, 0, 0)] :
        w \in BOOLEAN, eh \in BOOLEAN, pl \in {<<<<104, 105>>>>, <<<<104>>, <<105, 24>>>>}}

JunkScripts ==
    {[kind |-> "junk", dir |-> DirAbs, files |-> {}, name |-> <<>>, crc32 |-> TRUE,
      payloads |-> <<>>, eofHex |-> FALSE,
      pre |-> Opening(TRUE), rest |-> <<>>]}

(*   two:  ZRQINIT, ZFILE, file info | ZDATA, data, ZEOF, (ZSINIT,) ZFILE,   *)
(*         file info, ZDATA, data, ZEOF, ZFIN: two files in one session     *)
FirstPayload == <<104, 105>>
SecondPayload == <<111>>

FirstFile(w) ==
    BuildBinPosHeader(ZDATA, I64(0), w) \o BuildDataSubpacket(FirstPayload, ZCRCE, w)
    \o BuildBinPosHeader(ZEOF, I64(Len(FirstPayload)), w)

Between(extra) == IF extra THEN BuildHexHeader(ZSINIT, 0, 0, 0, 0) ELSE <<>>

SecondInfo(w, nm) ==
    BuildBinHeader(ZFILE, 0, 0, 0, 0, w) \o BuildDataSubpacket(FileInfo(nm), ZCRCW, w)

SecondFile(w) ==
    BuildBinPosHeader(ZDATA, I64(0), w) \o BuildDataSubpacket(SecondPayload, ZCRCE, w)
    \o BuildBinPosHeader(ZEOF, I64(Len(SecondPayload)), w)

TwoFileScripts ==
    {[kind |-> "two", dir |-> DirAbs, files |-> {}, name |-> nm, crc32 |-> w,
      payloads |-> <<FirstPayload, SecondPayload>>, eofHex |-> extra,
      pre |-> Opening(w) \o BuildDataSubpacket(FileInfo(<<97>>), ZCRCW, w),
      rest |-> FirstFile(w) \o Between(extra) \o SecondInfo(w, nm) \o SecondFile(w)
               \o BuildHexHeader(ZFIN, 0, 0, 0, 0)] :
        w \in BOOLEAN, extra \in BOOLEAN, nm \in {<<97>>, <<98>>}}

(*   corrupt: ZRQINIT, ZFILE, file info | ZDATA, a data subpacket, a hex    *)
(*         ZEOF with a wrong CRC, the same ZEOF sent again, ZFIN            *)
Damaged(frame, k) == [frame EXCEPT ![k] = IF @ = 48 THEN 49 ELSE 48]

CorruptScripts ==
    {[kind |-> "corrupt", dir |-> DirAbs, files |-> {}, name |-> <<97>>, crc32 |-> w,
      payloads |-> <<FirstPayload>>, eofHex |-> TRUE,
      pre |-> Opening(w) \o BuildDataSubpacket(FileInfo(<<97>>), ZCRCW, w),
      rest |-> BuildBinPosHeader(ZDATA, I64(0), w)
               \o BuildDataSubpacket(FirstPayload, ZCRCE, w)
               \o Damaged(BuildPosHeader(ZEOF, I64(Len(FirstPayload))), 18)
               \o BuildPosHeader(ZEOF, I64(Len(FirstPayload)))
               \o BuildHexHeader(ZFIN, 0, 0, 0, 0)] :
        w \in BOOLEAN}

(*   seek: ZRQINIT, ZFILE, file info | ZDATA(0), a data subpacket, ZDATA(1), *)
(*         a data subpacket, ZEOF, ZFIN: the second byte is sent again      *)
SeekScripts ==
    {[kind |-> "seek", dir |-> DirAbs, files |-> {}, name |-> <<97>>, crc32 |-> w,
      payloads |-> <<FirstPayload, SecondPayload>>, eofHex |-> TRUE,
      pre |-> Opening(w) \o BuildDataSubpacket(FileInfo(<<97>>), ZCRCW, w),
      rest |-> BuildBinPosHeader(ZDATA, I64(0), w)
               \o BuildDataSubpacket(FirstPayload, ZCRCG, w)
               \o BuildBinPosHeader(ZDATA, I64(1), w)
               \o BuildDataSubpacket(SecondPayload, ZCRCE, w)
               \o BuildPosHeader(ZEOF, I64(2))
               \o BuildHexHeader(ZFIN, 0, 0, 0, 0)] :
        w \in BOOLEAN}

(*   stray: ZRQINIT | ZDATA(0), a data subpacket, ZEOF, ZFIN: the remote    *)
(*         side sends file data without a ZFILE frame in front of it        *)
StrayScripts ==
    {[kind |-> "stray", dir |-> DirAbs, files |-> {}, name |-> <<>>, crc32 |-> w,
      payloads |-> <<FirstPayload>>, eofHex |-> TRUE,
      pre |-> BuildHexHeader(ZRQINIT, 0, 0, 0, 0),
      rest |-> BuildBinPosHeader(ZDATA, I64(0), w)
               \o BuildDataSubpacket(FirstPayload, ZCRCE, w)
               \o BuildPosHeader(ZEOF, I64(Len(FirstPayload)))
               \o BuildHexHeader(ZFIN, 0, 0, 0, 0)] :
        w \in BOOLEAN}

Scripts == InfoScripts \cup DataScripts \cup JunkScripts \cup TwoFileScripts
           \cup CorruptScripts \cup SeekScripts \cup StrayScripts

(* the files a script finds in the download directory, as absolute path -> content *)
ScriptFiles(scn) ==
    [q \in {Abs(Join(scn.dir, nm)) : nm \in scn.files} |-> <<120>>]

JunkChunk == [k \in 1..RecvBufSize |-> 97]

(* The variable rx keeps the receiver with its buffer cut into pages of     *)
(* RecvBufSize bytes; Receiver is the receiver itself.                      *)
Paged(bytes) ==
    [p \in 1..((Len(bytes) + RecvBufSize - 1) \div RecvBufSize) |->
        SubSeq(bytes, (p - 1) * RecvBufSize + 1,
               IF p * RecvBufSize < Len(bytes) THEN p * RecvBufSize ELSE Len(bytes))]
Stored(r) == [r EXCEPT !.buf = Paged(@)]
Receiver == [rx EXCEPT !.buf = Concat(@)]

RxActive == rx.State \notin {RxIdle, RxDone}

InitRx ==
    /\ IdleNotRx
    /\ rxScn \in Scripts
    /\ rx = Stored(NewReceiver(rxScn.dir, ScriptFiles(rxScn), 0))
    /\ rxWire = rxScn.rest
    /\ rxJunk = 0

(* startZmodemDownload: Receiver.Start with the detector's data *)
StartRx ==
    /\ rx.State = RxIdle
    /\ rx' = Stored(RxStart(Receiver, rxScn.pre))
    /\ UNCHANGED <<rxScn, rxWire, rxJunk, notRx>>

(* recvLoop: Receiver.Feed with the next n bytes of the stream *)
FeedRx(n) ==
    /\ RxActive
    /\ n \in 1..Len(rxWire)
    /\ rx' = Stored(RxFeed(Receiver, SubSeq(rxWire, 1, n)))
    /\ rxWire' = SubSeq(rxWire, n + 1, Len(rxWire))
    /\ UNCHANGED <<rxScn, rxJunk, notRx>>

(* recvLoop: Receiver.Feed with a full read of bytes that frame nothing *)
FeedJunkRx ==
    /\ RxActive
    /\ rxScn.kind = "junk"
    /\ rxJunk < MaxJunkFeeds
    /\ rx' = Stored(RxFeed(Receiver, JunkChunk))
    /\ rxJunk' = rxJunk + 1
    /\ UNCHANGED <<rxScn, rxWire, notRx>>

(* CancelZmodem: Receiver.Cancel *)
CancelRx ==
    /\ RxActive
    /\ rx' = Stored(RxCancel(Receiver))
    /\ UNCHANGED <<rxScn, rxWire, rxJunk, notRx>>

NextRx ==
    \/ StartRx
    \/ \E n \in 1..Len(rxWire) : FeedRx(n)
    \/ FeedJunkRx
    \/ CancelRx

SpecRx == InitRx /\ [][NextRx]_vars

(* a path lies strictly under a directory, both taken as absolute paths *)
StrictlyUnder(path, dir) ==
    /\ HasPrefix(Abs(path), Abs(dir) \o <<Slash>>)
    /\ Len(Abs(path)) > Len(Abs(dir)) + 1

HasEvent(r, type) == \E k \in 1..Len(r.events) : r.events[k].type = type
TraversalError(r) ==
    \E k \in 1..Len(r.events) : r.events[k].type = "error" /\ r.events[k].msg = "traversal"

\* C5: whatever bytes the file name of a file-info subpacket holds, every path
\* given to os.Create, every file that appears and the open handle are strictly
\* under the absolute download directory; a receiver that reports a path
\* traversal error is Done, has sent the abort sequence and has created nothing.
C5_OpenedPathUnderDownloadDir ==
    /\ \A k \in 1..Len(rx.creates) : StrictlyUnder(rx.creates[k], rx.DownloadDir)
    /\ \A q \in DOMAIN rx.fs \ DOMAIN ScriptFiles(rxScn) : StrictlyUnder(q, rx.DownloadDir)
    /\ rx.fileHandle.open => StrictlyUnder(rx.fileHandle.path, rx.DownloadDir)
    /\ TraversalError(rx) =>
          /\ rx.State = RxDone
          /\ rx.creates = <<>>
          /\ \E k \in 1..Len(rx.sent) : rx.sent[k] = AbortSeq

(* the file info names "../a" and the receiver has opened its file *)
C5_Witness ==
    /\ rxScn.kind = "info"
    /\ rxScn.name = <<Dot, Dot, Slash, 97>>
    /\ rx.creates # <<>>
    /\ rx.fileHandle.open

\* C6: the receiver's accumulation buffer never holds more than MaxBufSize
\* (64 KB) bytes.
C6_BufferWithinCap == Len(Receiver.buf) <= MaxBufSize

\* C7: for a stream ZDATA, data subpackets, ZEOF fed to a receiver with an open
\* file, cut into Feed chunks in any way, once the ZEOF has been handled (the
\* completion is reported) the file holds the payloads of the data subpackets,
\* each once and in stream order.
C7_PayloadsWrittenBeforeEOF ==
    (rxScn.kind = "data" /\ HasEvent(rx, "complete")) =>
        /\ Abs(rx.Filepath) \in DOMAIN rx.fs
        /\ rx.fs[Abs(rx.Filepath)] = Concat(rxScn.payloads)

(* a session of two files: how many bytes of the stream Feed has taken, and *)
(* the places in the stream where the frames of the script end              *)
Taken == Len(rxScn.rest) - Len(rxWire)
FirstEofEnd == Len(FirstFile(rxScn.crc32))
SecondZfileStart == FirstEofEnd + Len(Between(rxScn.eofHex))
SecondInfoEnd == SecondZfileStart + Len(SecondInfo(rxScn.crc32, rxScn.name))
SecondDataStart == SecondInfoEnd + Len(BuildBinPosHeader(ZDATA, I64(0), rxScn.crc32))
ZfinStart == SecondInfoEnd + Len(SecondFile(rxScn.crc32))

FirstPath == Join(DirAbs, <<97>>)
SecondPath == Join(DirAbs, IF rxScn.name = <<97>> THEN <<97, 95, 49>> ELSE rxScn.name)

Aborted == \E k \in 1..Len(rx.sent) : rx.sent[k] = AbortSeq
EventsOf(type) == SelectSeq(rx.events, LAMBDA e : e.type = type)
ZrinitHeader == BuildHexHeader(ZRINIT, 0, 0, 0, ZrinitFlags)

\* C19: in a session of two files that nobody cancels: once the first ZEOF is
\* in, the first file is closed, Complete was emitted for it,
\* ZRINIT was sent and the receiver waits for a ZFILE; once the second ZFILE and
\* its file-info subpacket are in, a second file is open in the same session
\* with BytesReceived 0; the receiver is Done only after the ZFIN (no ZDATA,
\* ZEOF, ZSINIT, ZFILE or ZRQINIT frame finishes the session), and it has
\* answered the ZFIN with its own.
C19_SecondFileInSameSession ==
    (rxScn.kind = "two" /\ ~Aborted) =>
        /\ (Taken >= FirstEofEnd /\ Taken <= SecondZfileStart) =>
              /\ rx.State = RxWaitZFile
              /\ ~rx.fileHandle.open
              /\ EventsOf("complete") = <<[type |-> "complete", path |-> FirstPath]>>
              /\ rx.sent[Len(rx.sent) - (IF Taken = SecondZfileStart /\ rxScn.eofHex
                                         THEN 1 ELSE 0)] = ZrinitHeader
        /\ (Taken >= SecondInfoEnd /\ Taken <= SecondDataStart) =>
              /\ rx.State = RxReceiving
              /\ rx.fileHandle.open /\ rx.fileHandle.path = Abs(SecondPath)
              /\ rx.creates = <<FirstPath, SecondPath>>
              /\ rx.BytesReceived = I64(0)
        /\ rx.State = RxDone =>
              /\ Taken > ZfinStart
              /\ rx.sent[Len(rx.sent)] = BuildHexHeader(ZFIN, 0, 0, 0, 0)
              /\ Len(EventsOf("complete")) = 2

\* C23: when a ZEOF header with a wrong CRC is followed in the stream by the
\* same ZEOF sent again and by ZFIN, then once the whole stream is in (and
\* nobody cancelled) the receiver has handled the frames after the corrupt one:
\* the file holds the payload, completion was reported and the receiver is
\* Done, not blocked in Receiving on the corrupt frame.
C23_ScanningGoesOnAfterBadCrc ==
    (rxScn.kind = "corrupt" /\ rx.State # RxIdle /\ rxWire = <<>> /\ ~Aborted) =>
        /\ rx.State = RxDone
        /\ Len(EventsOf("complete")) = 1
        /\ rx.fs[Abs(FirstPath)] = FirstPayload

-----------------------------------------------------------------------------
(* The reader's ZMODEM routing (Connection.recvLoop, from the clean chunk   *)
(* on) with the calls other tasks make on the same fields.  The connection  *)
(* is a record of the ZMODEM fields of Connection plus                      *)
(*   receiver, sender  the objects zmodemReceiver and zmodemSender point to *)
(*                     (Nil or Ref), kept when the pointer is set to nil    *)
(*   emitted           the chunks given to emitData, in order               *)
(*   events            the events given to emitEvent, in order              *)
(*   clock             time.Now() in milliseconds                           *)
(*   fs                the files on disk when the session starts            *)
ReadTimeout == 500                          \* milliseconds

Nil == "nil"
Ref == "ref"

NewConnection(dir, files) ==
    [zmodemActive |-> FALSE, zmodemReceiver |-> Nil, zmodemSender |-> Nil,
     zmodemDetectBuf |-> <<>>, downloadDir |-> dir,
     receiver |-> <<>>, sender |-> <<>>,
     emitted |-> <<>>, events |-> <<>>, clock |-> 0, fs |-> files]

(* the callbacks a call made: events n+1.. of the object *)
callbacksSince(obj, n) == SubSeq(obj.events, n + 1, Len(obj.events))
IsFinished(e) == e.type = "finished"
IsEvent(e) == e.type # "finished"

(* OnFinished of both sides *)
onFinished(c) ==
    [c EXCEPT !.zmodemActive = FALSE, !.zmodemReceiver = Nil, !.zmodemSender = Nil]

emitEvents(c, cbs) ==
    IF SelectSeq(cbs, IsFinished) # <<>>
    THEN onFinished([c EXCEPT !.events = @ \o SelectSeq(cbs, IsEvent)])
    ELSE [c EXCEPT !.events = @ \o SelectSeq(cbs, IsEvent)]

(* the connection after a call on its receiver / sender left the object as  *)
(* r / s; n is the number of callbacks the object had made before the call  *)
afterReceiver(c, r, n) == emitEvents([c EXCEPT !.receiver = r], callbacksSince(r, n))
afterSender(c, t, n) == emitEvents([c EXCEPT !.sender = t], callbacksSince(t, n))

rxNow(c) == [c.receiver EXCEPT !.clock = c.clock]
txNow(c) == [c.sender EXCEPT !.clock = c.clock]

(* the call c.emitData(clean); DataCh itself is followed in SpecChan *)
callEmitData(c, data) == [c EXCEPT !.emitted = Append(@, data)]

startZmodemDownload(c, initialData) ==
    afterReceiver([c EXCEPT !.zmodemReceiver = Ref, !.zmodemActive = TRUE],
                  RxStart(NewReceiver(c.downloadDir, c.fs, c.clock), initialData), 0)

receiverActive(c) ==
    c.zmodemReceiver # Nil /\ c.receiver.State \notin {RxIdle, RxDone}
senderActive(c) ==
    c.zmodemSender # Nil /\ c.sender.State \notin {TxIdle, TxDone}

(* recvLoop, the auto-detect with the buffer kept across reads *)
autoDetect(c, clean, detectData) ==
    IF Detect(detectData)
    THEN startZmodemDownload([c EXCEPT !.zmodemDetectBuf = <<>>], detectData)
    ELSE callEmitData([c EXCEPT !.zmodemDetectBuf =
                               IF Len(clean) >= 64
                               THEN SubSeq(clean, Len(clean) - 63, Len(clean))
                               ELSE clean],
                  clean)

(* recvLoop, from `clean := c.processTelnet(buf[:n])` with len(clean) > 0 *)
recvClean(c, clean) ==
    IF c.zmodemActive
    THEN IF receiverActive(c)
         THEN afterReceiver(c, RxFeed(rxNow(c), clean), Len(c.receiver.events))
         ELSE IF senderActive(c)
         THEN afterSender(c, TxFeed(txNow(c), clean), Len(c.sender.events))
         ELSE callEmitData([c EXCEPT !.zmodemActive = FALSE], clean)
    ELSE autoDetect(c, clean, c.zmodemDetectBuf \o clean)

(* recvLoop, the ZMODEM check made when a read times out *)
timeoutCancel(c, msg) ==
    [afterReceiver([c EXCEPT !.events = Append(@, [type |-> "error", msg |-> msg])],
                   RxCancel(rxNow(c)), Len(c.receiver.events))
       EXCEPT !.zmodemActive = FALSE]

readTimedOutNoDataOnly(c) ==
    IF c.zmodemActive /\ c.zmodemReceiver # Nil
       /\ c.clock - c.receiver.StartTime > 60 * 1000
       /\ c.receiver.BytesReceived = I64(0)
    THEN timeoutCancel(c, "no data")
    ELSE c

readTimedOut(c) ==
    IF c.zmodemActive /\ c.zmodemReceiver # Nil
    THEN IF c.clock - c.receiver.StartTime > 300 * 1000
         THEN timeoutCancel(c, "timeout")
         ELSE IF c.clock - c.receiver.StartTime > 60 * 1000
                 /\ c.receiver.BytesReceived = I64(0)
         THEN timeoutCancel(c, "no data")
         ELSE c
    ELSE c

(* CancelZmodem *)
cancelSender(c) ==
    IF c.zmodemSender # Nil
    THEN afterSender(c, TxCancel(txNow(c)), Len(c.sender.events)) ELSE c

cancelReceiver(c) ==
    IF c.zmodemReceiver # Nil
    THEN afterReceiver(c, RxCancel(rxNow(c)), Len(c.receiver.events)) ELSE c

CancelZmodem(c) == [cancelSender(cancelReceiver(c)) EXCEPT !.zmodemActive = FALSE]

-----------------------------------------------------------------------------
(* Sessions of the reader.  A script fixes the clean chunks the reader gets *)
(* from processTelnet, in order, the files on disk and the file the user    *)
(* uploads (<<>>: no upload is requested):                                  *)
(*   detect:   a ZMODEM start pattern cut into chunks at any places, then   *)
(*             text; the remote sends no ZFILE                              *)
(*   download: ZRQINIT | ZFILE, file info | ZDATA, data | ZEOF | ZFIN |     *)
(*             "OO" | text                                                  *)
(*   upload:   the remote's answers ZRINIT | ZRPOS | ZRINIT | ZFIN | text   *)
(*   and the variants of them defined below (stall, abort, ended, both)     *)
MaxTicks == 122
MaxStallTicks == 602
MaxIdleTicks == 2

Text == <<104, 105>>                        \* "hi"
UploadPath == <<Slash, 117, Slash, 102>>    \* "/u/f"

(* the ways to cut a byte string into chunks that are not empty *)
RECURSIVE Cuts(_)
Cuts(bytes) ==
    IF bytes = <<>> THEN {<<>>}
    ELSE UNION {{<<SubSeq(bytes, 1, k)>> \o rest :
                    rest \in Cuts(SubSeq(bytes, k + 1, Len(bytes)))} : k \in 1..Len(bytes)}

StartPatterns == {ZRQINITHex, <<ZPAD, ZDLE, ZBIN, 0>>, <<ZPAD, ZDLE, ZBIN32, 0>>}

NoFiles == [q \in {} |-> <<>>]

DetectScripts ==
    {[kind |-> "detect", chunks |-> c \o <<Text>>, files |-> NoFiles, upload |-> <<>>] :
        c \in UNION {Cuts(pat) : pat \in StartPatterns}}

DownloadScripts ==
    {[kind |-> "download",
      chunks |-> <<BuildHexHeader(ZRQINIT, 0, 0, 0, 0),
                   BuildBinHeader(ZFILE, 0, 0, 0, 0, TRUE)
                     \o BuildDataSubpacket(FileInfo(<<97>>), ZCRCW, TRUE),
                   BuildBinPosHeader(ZDATA, I64(0), TRUE)
                     \o BuildDataSubpacket(Text, ZCRCE, TRUE),
                   BuildPosHeader(ZEOF, I64(Len(Text))),
                   BuildHexHeader(ZFIN, 0, 0, 0, 0),
                   <<79, 79>>, Text>>,
      files |-> NoFiles, upload |-> <<>>]}

UploadScripts ==
    {[kind |-> "upload",
      chunks |-> <<BuildHexHeader(ZRINIT, 0, 0, 0, ZrinitFlags),
                   BuildPosHeader(ZRPOS, I64(0)),
                   BuildHexHeader(ZRINIT, 0, 0, 0, ZrinitFlags),
                   BuildHexHeader(ZFIN, 0, 0, 0, 0),
                   Text>>,
      files |-> [q \in {UploadPath} |-> <<1, 2, 3>>], upload |-> UploadPath]}

(* stall: a download whose remote side is silent after the first data *)
StallScripts ==
    {[kind |-> "stall", chunks |-> SubSeq(d.chunks, 1, 3),
      files |-> d.files, upload |-> <<>>] : d \in DownloadScripts}

(* abort: a download the remote side ends with ZCAN after the first data *)
AbortScripts ==
    {[kind |-> "abort", chunks |-> Append(SubSeq(d.chunks, 1, 3),
                                          BuildHexHeader(ZCAN, 0, 0, 0, 0)),
      files |-> d.files, upload |-> <<>>] : d \in DownloadScripts}

(* uploads the remote side ends after ZFILE: with ZSKIP, with ZCAN, with    *)
(* ZFIN, or with one ZRPOS more than MaxRetries                             *)
UploadEnds ==
    {<<BuildHexHeader(ZSKIP, 0, 0, 0, 0)>>,
     <<BuildHexHeader(ZCAN, 0, 0, 0, 0)>>,
     <<BuildHexHeader(ZFIN, 0, 0, 0, 0)>>,
     [k \in 1..(MaxRetries + 1) |-> BuildPosHeader(ZRPOS, I64(0))]}

EndedUploadScripts ==
    {[kind |-> "ended", chunks |-> <<BuildHexHeader(ZRINIT, 0, 0, 0, ZrinitFlags)>> \o e,
      files |-> u.files, upload |-> u.upload] : e \in UploadEnds, u \in UploadScripts}

(* both: a download, and an upload requested in the same session *)
BothScripts ==
    {[kind |-> "both", chunks |-> SubSeq(d.chunks, 1, 6) \o u.chunks,
      files |-> u.files, upload |-> u.upload] : d \in DownloadScripts, u \in UploadScripts}

ConnScripts ==
    DetectScripts \cup DownloadScripts \cup StallScripts \cup UploadScripts
    \cup AbortScripts \cup EndedUploadScripts \cup BothScripts

Last64(bytes) ==
    IF Len(bytes) >= 64 THEN SubSeq(bytes, Len(bytes) - 63, Len(bytes)) ELSE bytes

(* where recvLoop sends a clean chunk *)
routeOf(c, clean) ==
    IF c.zmodemActive
    THEN IF receiverActive(c) THEN "receiver"
         ELSE IF senderActive(c) THEN "sender" ELSE "screen"
    ELSE IF Detect(c.zmodemDetectBuf \o clean) THEN "receiver" ELSE "screen"

(* no transfer is active: the flag is off and no side is in a transfer *)
NoTransfer(c) == ~c.zmodemActive /\ ~receiverActive(c) /\ ~senderActive(c)

InitConn ==
    /\ IdleNotConn
    /\ cnScn \in ConnScripts
    /\ conn = NewConnection(DirAbs, cnScn.files)
    /\ cnIn = cnScn.chunks
    /\ cnUp = 0
    /\ cnTail = <<>>
    /\ cnLog = <<>>

(* recvLoop: a read that returns data, its clean chunk not empty *)
RecvData ==
    /\ cnIn # <<>>
    /\ conn' = recvClean(conn, Head(cnIn))
    /\ cnIn' = Tail(cnIn)
    /\ cnLog' = Append(cnLog,
                       [to |-> routeOf(conn, Head(cnIn)),
                        rxActive |-> receiverActive(conn),
                        txActive |-> senderActive(conn),
                        idle |-> NoTransfer(conn),
                        fired |-> ~conn.zmodemActive
                                  /\ Detect(conn.zmodemDetectBuf \o Head(cnIn)),
                        pattern |-> Detect(cnTail \o Head(cnIn))])
    /\ cnTail' = IF ~NoTransfer(conn) THEN cnTail
                 ELSE IF Detect(cnTail \o Head(cnIn)) THEN <<>>
                 ELSE Last64(cnTail \o Head(cnIn))
    /\ UNCHANGED <<cnScn, cnUp, notConn>>

(* recvLoop: a read that ends with the read deadline.  Up to MaxTicks of   *)
(* them are followed in a session whose remote side is silent after the   *)
(* start pattern, MaxStallTicks in one whose remote side is silent after   *)
(* the first data, MaxIdleTicks in the others.                             *)
TickLimit ==
    IF conn.zmodemActive /\ cnScn.kind = "detect" THEN MaxTicks
    ELSE IF conn.zmodemActive /\ cnScn.kind = "stall" /\ cnIn = <<>> THEN MaxStallTicks
    ELSE MaxIdleTicks

RecvTimeout ==
    /\ conn.clock < ReadTimeout * TickLimit
    /\ conn' = readTimedOut([conn EXCEPT !.clock = @ + ReadTimeout])
    /\ UNCHANGED <<cnScn, cnIn, cnUp, cnTail, cnLog, notConn>>

(* StartZmodemUpload, run by a task of its own (App.UploadFile): its writes *)
(* to the connection are not ordered with the reader's steps                *)
UploadAssign ==
    /\ cnScn.upload # <<>> /\ cnUp = 0
    /\ conn' = [conn EXCEPT !.sender = NewSender(conn.fs, conn.clock),
                            !.zmodemSender = Ref]
    /\ cnUp' = 1
    /\ UNCHANGED <<cnScn, cnIn, cnTail, cnLog, notConn>>

UploadActivate ==
    /\ cnUp = 1
    /\ conn' = [conn EXCEPT !.zmodemActive = TRUE]
    /\ cnUp' = 2
    /\ UNCHANGED <<cnScn, cnIn, cnTail, cnLog, notConn>>

UploadStart ==
    /\ cnUp = 2
    /\ conn' = afterSender(conn, StartUpload(txNow(conn), cnScn.upload),
                           Len(conn.sender.events))
    /\ cnUp' = 3
    /\ UNCHANGED <<cnScn, cnIn, cnTail, cnLog, notConn>>

(* App.CancelZmodem while a transfer is shown *)
CancelConn ==
    /\ receiverActive(conn) \/ senderActive(conn)
    /\ conn' = CancelZmodem(conn)
    /\ UNCHANGED <<cnScn, cnIn, cnUp, cnTail, cnLog, notConn>>

NextConn ==
    \/ RecvData
    \/ RecvTimeout
    \/ UploadAssign
    \/ UploadActivate
    \/ UploadStart
    \/ CancelConn

SpecConn == InitConn /\ [][NextConn]_vars

\* C8: a clean chunk that arrives while the receiver is active is fed to the
\* receiver, one that arrives while the sender is active (and the receiver is
\* not) is fed to the sender, and neither goes to the screen path; a chunk that
\* arrives with no side active goes to the screen path unless it starts a
\* download.
C8_ActiveSideGetsEveryChunk ==
    \A k \in 1..Len(cnLog) :
        /\ cnLog[k].rxActive => cnLog[k].to = "receiver"
        /\ (~cnLog[k].rxActive /\ cnLog[k].txActive) => cnLog[k].to = "sender"
        /\ (~cnLog[k].rxActive /\ ~cnLog[k].txActive) =>
              (cnLog[k].to = "screen" \/ cnLog[k].fired)

\* C9: with no transfer active, the detector fires on a chunk exactly when a
\* start pattern occurs in the last 64 bytes of all previous clean chunks
\* followed by the chunk.
C9_DetectsPatternAcrossChunks ==
    \A k \in 1..Len(cnLog) :
        cnLog[k].idle => (cnLog[k].fired <=> cnLog[k].pattern)

\* C10: a receiver started by the detector does not stay in WaitZFile for more
\* than 30 s: at the first read timeout after that it has been aborted.
C10_WaitZFileTimesOut ==
    ~(/\ conn.zmodemActive
      /\ receiverActive(conn)
      /\ conn.receiver.State = RxWaitZFile
      /\ conn.clock - conn.receiver.StartTime > 30 * 1000)

(* the transfer of the active receiver is overdue at time now *)
Overdue(c, now) ==
    \/ now - c.receiver.StartTime > 300 * 1000
    \/ now - c.receiver.StartTime > 60 * 1000 /\ c.receiver.BytesReceived = I64(0)

IsTimeoutError(e) == e.type = "error" /\ e.msg \in {"timeout", "no data"}

\* C11: a read-timeout tick with an active receiver whose transfer is overdue
\* (more than 300 s since its start, or more than 60 s with no byte received)
\* emits one timeout error, sends the Abort sequence, closes the file, leaves
\* the receiver Done and clears the active flag; every other tick changes
\* nothing but the time.
C11_TickCancelsOverdueReceiver ==
    [][conn'.clock # conn.clock =>
         IF conn.zmodemActive /\ receiverActive(conn) /\ Overdue(conn, conn'.clock)
         THEN /\ Len(conn'.events) = Len(conn.events) + 1
              /\ SubSeq(conn'.events, 1, Len(conn.events)) = conn.events
              /\ IsTimeoutError(conn'.events[Len(conn'.events)])
              /\ conn'.receiver.sent = Append(conn.receiver.sent, AbortSeq)
              /\ conn'.receiver.fileHandle = NoFile
              /\ conn'.receiver.State = RxDone
              /\ ~conn'.zmodemActive
         ELSE conn' = [conn EXCEPT !.clock = conn'.clock]]_vars

C11_Witness ==
    /\ \E k \in 1..Len(conn.events) :
          conn.events[k] = [type |-> "error", msg |-> "timeout"]
    /\ conn.receiver.creates # <<>>
    /\ conn.receiver.BytesReceived # I64(0)
    /\ conn.receiver.fileHandle = NoFile
    /\ conn.receiver.State = RxDone
    /\ conn.clock > 300 * 1000

-----------------------------------------------------------------------------
(* The sender under a scripted remote receiver.  The upload of one file is  *)
(* started; the remote side's frames reach Feed one per read, in any order. *)
MaxTxFeeds == 7

UploadData == <<1, 2, 3>>

TxFrames ==
    {[type |-> ZRINIT, pos |-> I64(0)], [type |-> ZACK, pos |-> I64(0)],
     [type |-> ZRPOS, pos |-> I64(0)], [type |-> ZRPOS, pos |-> I64(2)]}

FrameBytes(f) ==
    IF f.type = ZRINIT THEN BuildHexHeader(ZRINIT, 0, 0, 0, ZrinitFlags)
    ELSE BuildPosHeader(f.type, f.pos)

TxActive == tx.State \notin {TxIdle, TxDone}

InitTx ==
    /\ IdleNotTx
    /\ tx = StartUpload(NewSender([q \in {UploadPath} |-> UploadData], 0), UploadPath)
    /\ txLog = <<>>

FeedTx(f) ==
    /\ TxActive /\ Len(txLog) < MaxTxFeeds
    /\ tx' = TxFeed(tx, FrameBytes(f))
    /\ txLog' = Append(txLog, f)
    /\ UNCHANGED notTx

CancelTx ==
    /\ TxActive
    /\ tx' = TxCancel(tx)
    /\ UNCHANGED <<txLog, notTx>>

NextTx ==
    \/ \E f \in TxFrames : FeedTx(f)
    \/ CancelTx

SpecTx == InitTx /\ [][NextTx]_vars

(* the number of ZRPOS frames among the frames fed *)
ZrposCount(log) == Cardinality({k \in 1..Len(log) : log[k].type = ZRPOS})

(* what a restart at offset pos sends: ZDATA at pos, the rest of the file, ZEOF *)
RestartSends(pos, crc32) ==
    <<BuildBinPosHeader(ZDATA, pos, crc32),
      BuildDataSubpacket(SubSeq(UploadData, I64Int(pos) + 1, Len(UploadData)), ZCRCE, crc32),
      BuildPosHeader(ZEOF, I64(Len(UploadData)))>>

RetriesError == [type |-> "error", msg |-> "retries"]

\* C12: in one upload each of the first five ZRPOS frames restarts sending at
\* its offset (ZDATA at the offset, the file from there, ZEOF); the sixth
\* emits an error, sends the Abort sequence and nothing else, and leaves the
\* sender Done; no seventh ZRPOS is handled.
C12_SixthZrposAborts ==
    [][(txLog' # txLog /\ txLog'[Len(txLog')].type = ZRPOS) =>
         IF ZrposCount(txLog') <= 5
         THEN /\ tx'.sent = tx.sent \o RestartSends(txLog'[Len(txLog')].pos, tx.UseCRC32)
              /\ tx'.State = TxWaitAck
              /\ RetriesError \notin {tx'.events[k] : k \in 1..Len(tx'.events)}
         ELSE /\ ZrposCount(txLog') = 6
              /\ tx'.sent = Append(tx.sent, AbortSeq)
              /\ tx'.events = tx.events \o <<RetriesError, [type |-> "finished"]>>
              /\ tx'.State = TxDone]_vars

C12_Witness ==
    /\ ZrposCount(txLog) = 6
    /\ tx.State = TxDone
    /\ tx.sent[Len(tx.sent)] = AbortSeq
    /\ RetriesError \in {tx.events[k] : k \in 1..Len(tx.events)}

-----------------------------------------------------------------------------
(* The hand-off from the connection to the host: DataCh and EventCh filled  *)
(* by the reader (emitData, emitEvent, the blocking send of Disconnected)   *)
(* and by the tasks Connection.Send starts on a write failure, emptied by   *)
(* the two receive cases of App.eventLoop's select.  A script fixes what    *)
(* the reader produces, in order; an item is known by its place n in the    *)
(* script.  host is the record                                              *)
(*   script    the kinds of the items the reader produces                   *)
(*   made      the number of items produced so far                          *)
(*   DataCh, EventCh  the channels, oldest first                            *)
(*   tasks     the items held by tasks blocked in `c.EventCh <- ...`        *)
(*   consumed  the items eventLoop received, in order                       *)
EventChCap == 16
MaxShort == 3
MaxBurst == 17

ItemKinds == {"data", "progress", "error", "sendfail"}

RECURSIVE KindsUpTo(_)
KindsUpTo(n) ==
    IF n = 0 THEN {<<>>}
    ELSE LET shorter == KindsUpTo(n - 1) IN
         shorter \cup {Append(s, k) : s \in shorter, k \in ItemKinds}

(* short sessions in every order, ended or not by the remote close, and a  *)
(* burst of progress events with an error behind it                        *)
HostScripts ==
    KindsUpTo(MaxShort)
    \cup {s \o <<"closed">> : s \in KindsUpTo(MaxShort - 1)}
    \cup {[k \in 1..MaxBurst |-> IF k < MaxBurst THEN "progress" ELSE "error"]}

emitEvent(ch, e) == IF Len(ch) < EventChCap THEN Append(ch, e) ELSE ch

NextKind == IF host.made < Len(host.script) THEN host.script[host.made + 1] ELSE "none"

InitHost ==
    /\ IdleNotHost
    /\ \E s \in HostScripts :
          host = [script |-> s, made |-> 0, DataCh |-> <<>>, EventCh |-> <<>>,
                  tasks |-> {}, consumed |-> <<>>]

(* recvLoop: c.emitData(clean) *)
EmitData ==
    /\ NextKind = "data"
    /\ host' = [host EXCEPT !.made = @ + 1, !.DataCh = emitData(@, host.made + 1)]
    /\ UNCHANGED notHost

(* a callback of the transfer or the timeout branch: c.emitEvent(e) *)
EmitEvent ==
    /\ NextKind \in {"progress", "error"}
    /\ host' = [host EXCEPT !.made = @ + 1, !.EventCh = emitEvent(@, host.made + 1)]
    /\ UNCHANGED notHost

(* Connection.Send, the write fails: a task is started for the event *)
SendFails ==
    /\ NextKind = "sendfail"
    /\ host' = [host EXCEPT !.made = @ + 1, !.tasks = @ \cup {host.made + 1}]
    /\ UNCHANGED notHost

(* the task started by Send: c.EventCh <- Event{Disconnected}, blocking *)
TaskSend ==
    /\ Len(host.EventCh) < EventChCap
    /\ \E n \in host.tasks :
          host' = [host EXCEPT !.tasks = @ \ {n}, !.EventCh = Append(@, n)]
    /\ UNCHANGED notHost

(* recvLoop, n == 0: c.EventCh <- Event{Disconnected}, blocking; return *)
ReaderClosed ==
    /\ NextKind = "closed"
    /\ Len(host.EventCh) < EventChCap
    /\ host' = [host EXCEPT !.made = @ + 1, !.EventCh = Append(@, host.made + 1)]
    /\ UNCHANGED notHost

(* eventLoop: case data := <-a.conn.DataCh *)
HostData ==
    /\ host.DataCh # <<>>
    /\ host' = [host EXCEPT !.DataCh = Tail(@), !.consumed = Append(@, Head(host.DataCh))]
    /\ UNCHANGED notHost

(* eventLoop: case event := <-a.conn.EventCh *)
HostEvent ==
    /\ host.EventCh # <<>>
    /\ host' = [host EXCEPT !.EventCh = Tail(@), !.consumed = Append(@, Head(host.EventCh))]
    /\ UNCHANGED notHost

NextHost ==
    \/ EmitData
    \/ EmitEvent
    \/ SendFails
    \/ TaskSend
    \/ ReaderClosed
    \/ HostData
    \/ HostEvent

SpecHost == InitHost /\ [][NextHost]_vars

SeqRange(s) == {s[k] : k \in 1..Len(s)}

\* C13: the host consumes data chunks and events in the order in which they
\* were produced: no item is consumed after an item produced later.
C13_ConsumedInProducedOrder ==
    \A i, j \in 1..Len(host.consumed) :
        i < j => host.consumed[i] < host.consumed[j]

\* C14: every error event produced (a ZMODEM or filesystem error given to
\* emitEvent, the Disconnected of a failed write) is queued for the host or
\* has been consumed by it: none is discarded.
C14_NoErrorEventDiscarded ==
    \A n \in 1..host.made :
        host.script[n] \in {"error", "sendfail"} =>
            n \in SeqRange(host.EventCh) \cup SeqRange(host.consumed) \cup host.tasks

-----------------------------------------------------------------------------
(* Snapshots of the screen (App.GetScreenSnapshot) beside the task that     *)
(* feeds it (App.eventLoop) and App.ClearScreen, all under App.mu.          *)
Palette16 ==
    <<<<0, 0, 0>>, <<170, 0, 0>>, <<0, 170, 0>>, <<170, 85, 0>>,
      <<0, 0, 170>>, <<170, 0, 170>>, <<0, 170, 170>>, <<170, 170, 170>>,
      <<85, 85, 85>>, <<255, 85, 85>>, <<85, 255, 85>>, <<255, 255, 85>>,
      <<85, 85, 255>>, <<255, 85, 255>>, <<85, 255, 255>>, <<255, 255, 255>>>>

(* lo <= idx && idx <= hi *)
IdxIn(idx, lo, hi) == I64LessEq(I64(lo), idx) /\ I64LessEq(idx, I64(hi))

cubeRGB(i) == <<((i \div 36) * 51) % 256, (((i % 36) \div 6) * 51) % 256, ((i % 6) * 51) % 256>>
grayRGB(v) == <<v % 256, v % 256, v % 256>>

resolveIndex(idx, isFG) ==
    IF IdxIn(idx, 0, 15) THEN Palette16[I64Int(idx) + 1]
    ELSE IF IdxIn(idx, 16, 231) THEN cubeRGB(I64Int(idx) - 16)
    ELSE IF IdxIn(idx, 232, 255) THEN grayRGB(8 + (I64Int(idx) - 232) * 10)
    ELSE IF isFG THEN Palette16[DefaultFG + 1] ELSE <<0, 0, 0>>

ToRGB(c, isFG, bold) ==
    IF c.IsRGB THEN <<c.R, c.G, c.B>>
    ELSE resolveIndex(IF isFG /\ bold /\ IdxIn(c.Index, 0, 7)
                      THEN I64Add(c.Index, I64(8)) ELSE c.Index, isFG)

(* the ScreenCell made of a cell: Reverse swaps the resolved colours, a     *)
(* control character is shown as a space                                    *)
screenCell(cell, fg, bg) ==
    [Char |-> IF cell.Char < 32 THEN 32 ELSE cell.Char,
     Fg |-> IF cell.Attr.Reverse THEN bg ELSE fg,
     Bg |-> IF cell.Attr.Reverse THEN fg ELSE bg,
     Bold |-> cell.Attr.Bold, Underline |-> cell.Attr.Underline,
     Blink |-> cell.Attr.Blink, Reverse |-> cell.Attr.Reverse]

snapshotRow(s, y) ==
    [x \in 1..s.Cols |->
        screenCell(s.Buffer[y][x],
                   ToRGB(s.Buffer[y][x].Attr.FG, TRUE, s.Buffer[y][x].Attr.Bold),
                   ToRGB(s.Buffer[y][x].Attr.BG, FALSE, FALSE))]

ScreenSnapshot(rows, s) == [Cells |-> rows, CursorX |-> s.CursorX, CursorY |-> s.CursorY]

(* the snapshot of a screen that no task is changing *)
SnapshotOf(s) == ScreenSnapshot([y \in 1..s.Rows |-> snapshotRow(s, y)], s)

(* a.mu.Lock() of GetScreenSnapshot: whether it may pass and who holds mu   *)
snapNoLock(mu) == [ok |-> TRUE, mu |-> mu]

snapLock(mu) == [ok |-> mu = "free", mu |-> "caller"]

snapUnlock(mu) == IF mu = "caller" THEN "free" ELSE mu

(* snap is the record                                                       *)
(*   screen   a.screen                                                      *)
(*   mu       a.mu: "free" or the task that holds it                        *)
(*   feed     the characters the Feed in progress has not processed yet     *)
(*   fpc      the feeding task: "idle" or "feeding" (inside Feed)           *)
(*   rows     the rows the snapshot in progress has copied                  *)
(*   cpc      the snapshot caller: "idle" or "reading"                      *)
(*   result   <<>> or <<the last snapshot returned>>                        *)
(*   calls    number of Feed and Reset calls started                        *)
(*   marks    the snapshots of the screen before and after each whole call  *)
MaxSnapCalls == 3

SnapTexts == {<<97, 98>>, <<10, 98>>, <<27, 91>> \o MaxInt64Text \o <<67>>}

InitSnap ==
    /\ IdleNotSnap
    /\ snap = [screen |-> NewScreen(ScrCols, ScrRows), mu |-> "free",
               feed |-> <<>>, fpc |-> "idle", rows |-> <<>>, cpc |-> "idle",
               result |-> <<>>, calls |-> 0,
               marks |-> {SnapshotOf(NewScreen(ScrCols, ScrRows))}]

(* eventLoop: a.mu.Lock(); a.screen.Feed(text) is entered *)
FeedBegin(text) ==
    /\ snap.fpc = "idle" /\ snap.mu = "free" /\ ~snap.screen.fault
    /\ snap.calls < MaxSnapCalls
    /\ snap' = [snap EXCEPT !.mu = "feeder", !.fpc = "feeding", !.feed = text,
                            !.calls = @ + 1]
    /\ UNCHANGED notSnap

(* Feed: s.process(ch) for the next character *)
FeedChar ==
    /\ snap.fpc = "feeding" /\ snap.feed # <<>> /\ ~snap.screen.fault
    /\ snap' = [snap EXCEPT !.screen = process(@, Head(snap.feed)), !.feed = Tail(@)]
    /\ UNCHANGED notSnap

(* Feed returns; a.mu.Unlock() *)
FeedEnd ==
    /\ snap.fpc = "feeding" /\ snap.feed = <<>> /\ ~snap.screen.fault
    /\ snap' = [snap EXCEPT !.mu = "free", !.fpc = "idle",
                            !.marks = @ \cup {SnapshotOf(snap.screen)}]
    /\ UNCHANGED notSnap

(* App.ClearScreen: a.mu.Lock(); a.screen.Reset(); a.mu.Unlock() *)
ClearScreen ==
    /\ snap.mu = "free" /\ ~snap.screen.fault
    /\ snap.calls < MaxSnapCalls
    /\ snap' = [snap EXCEPT !.screen = ScreenReset(@), !.calls = @ + 1,
                            !.marks = @ \cup {SnapshotOf(ScreenReset(snap.screen))}]
    /\ UNCHANGED notSnap

(* GetScreenSnapshot: a.mu.Lock() *)
SnapBegin ==
    /\ snap.cpc = "idle" /\ ~snap.screen.fault
    /\ snapLock(snap.mu).ok
    /\ snap' = [snap EXCEPT !.mu = snapLock(@).mu, !.cpc = "reading", !.rows = <<>>]
    /\ UNCHANGED notSnap

(* GetScreenSnapshot: one round of `for y := 0; y < a.screen.Rows; y++` *)
SnapRow ==
    /\ snap.cpc = "reading" /\ Len(snap.rows) < snap.screen.Rows /\ ~snap.screen.fault
    /\ snap' = [snap EXCEPT !.rows = Append(@, snapshotRow(snap.screen, Len(@) + 1))]
    /\ UNCHANGED notSnap

(* GetScreenSnapshot: return ScreenSnapshot{...}; the deferred a.mu.Unlock() *)
SnapEnd ==
    /\ snap.cpc = "reading" /\ Len(snap.rows) = snap.screen.Rows /\ ~snap.screen.fault
    /\ snap' = [snap EXCEPT !.result = <<ScreenSnapshot(snap.rows, snap.screen)>>,
                            !.mu = snapUnlock(@), !.cpc = "idle", !.rows = <<>>]
    /\ UNCHANGED notSnap

NextSnap ==
    \/ \E text \in SnapTexts : FeedBegin(text)
    \/ FeedChar
    \/ FeedEnd
    \/ ClearScreen
    \/ SnapBegin
    \/ SnapRow
    \/ SnapEnd

SpecSnap == InitSnap /\ [][NextSnap]_vars

\* C15: a snapshot returned by GetScreenSnapshot equals the screen (grid and
\* cursor) as it was before or after a whole Feed or Reset call, never a
\* state in the middle of one, in every interleaving with the feeding task.
C15_SnapshotOfWholeCalls ==
    snap.result # <<>> => snap.result[1] \in snap.marks

C15_Witness ==
    /\ snap.result # <<>>
    /\ snap.result[1] # SnapshotOf(NewScreen(ScrCols, ScrRows))
    /\ snap.fpc = "feeding" /\ snap.feed # <<>>
    /\ SnapshotOf(snap.screen) \notin snap.marks

\* C16: in every snapshot the cursor is inside the returned grid:
\* 0 <= CursorY < number of rows, 0 <= CursorX < number of cells of that row.
C16_SnapshotCursorInGrid ==
    snap.result # <<>> =>
        /\ IndexOK(snap.result[1].CursorY, Len(snap.result[1].Cells))
        /\ IndexOK(snap.result[1].CursorX,
                   Len(snap.result[1].Cells[I64Int(snap.result[1].CursorY) + 1]))

-----------------------------------------------------------------------------
(* The life of the reader task: recvLoop after Connect, beside Disconnect,  *)
(* the host's eventLoop and the remote side.  rd is the record              *)
(*   pc         the reader's position in recvLoop:                          *)
(*              "check" (select on stopCh), "deadline" (SetReadDeadline),   *)
(*              "read" (conn.Read), "timeout" (the ZMODEM check),           *)
(*              "process" (processTelnet and the routing), "lost" (read     *)
(*              error), "send" (c.EventCh <- Disconnected), "returned",     *)
(*              "panicked" (method call on the nil c.conn)                  *)
(*   connected, stopClosed, connNil   c.connected, stopCh closed, c.conn nil *)
(*   mu         c.mu: "free" or "disconnect"                                *)
(*   dpc        the task in Connection.Disconnect: 0 before the call,       *)
(*              1 after close(stopCh), 2 after conn.Close(), 3 returned     *)
(*   socket     "open", "closed" (by conn.Close) or "eof" (by the remote)   *)
(*   events     len(c.EventCh)                                              *)
(*   hostUp     eventLoop is running (a.ctx is not done)                    *)
(*   asked      Disconnect or the host's shutdown came while connected      *)
InitReader ==
    /\ IdleNotReader
    /\ rd = [pc |-> "check", connected |-> TRUE, stopClosed |-> FALSE, connNil |-> FALSE,
             mu |-> "free", dpc |-> 0, socket |-> "open", events |-> 1,
             hostUp |-> TRUE, asked |-> FALSE]

ReaderRuns == rd.pc \notin {"returned", "panicked"}

(* select { case <-c.stopCh: return; default: } *)
ReaderCheck ==
    /\ rd.pc = "check"
    /\ rd' = [rd EXCEPT !.pc = IF rd.stopClosed THEN "returned" ELSE "deadline"]
    /\ UNCHANGED notReader

(* c.conn.SetReadDeadline(...): c.conn is read without c.mu; beside the    *)
(* write `c.conn = nil` of Disconnect the read gives nil or the old value  *)
ReaderDeadline ==
    /\ rd.pc = "deadline"
    /\ \E sees \in (IF rd.connNil THEN {"nil", "old"} ELSE {"old"}) :
          rd' = [rd EXCEPT !.pc = IF sees = "nil" THEN "panicked" ELSE "read"]
    /\ UNCHANGED notReader

(* n, err := c.conn.Read(buf): data, the read deadline, or an error *)
ReaderRead ==
    /\ rd.pc = "read"
    /\ \E sees \in (IF rd.connNil THEN {"nil", "old"} ELSE {"old"}) :
          \E got \in (IF rd.socket = "open" THEN {"process", "timeout"} ELSE {"lost"}) :
              rd' = [rd EXCEPT !.pc = IF sees = "nil" THEN "panicked" ELSE got]
    /\ UNCHANGED notReader

(* the timeout branch: at most one emitEvent, then continue *)
ReaderTimeout ==
    /\ rd.pc = "timeout"
    /\ \E n \in {0, 1} :
          rd' = [rd EXCEPT !.pc = "check",
                           !.events = IF @ + n <= EventChCap THEN @ + n ELSE @]
    /\ UNCHANGED notReader

(* processTelnet, routing, emitData / emitEvent (none of them blocks) *)
ReaderProcess ==
    /\ rd.pc = "process"
    /\ \E n \in {0, 1} :
          rd' = [rd EXCEPT !.pc = "check",
                           !.events = IF @ + n <= EventChCap THEN @ + n ELSE @]
    /\ UNCHANGED notReader

(* read error: wasConnected := c.connected; c.connected = false, under c.mu *)
ReaderLost ==
    /\ rd.pc = "lost" /\ rd.mu = "free"
    /\ rd' = [rd EXCEPT !.pc = IF rd.connected THEN "send" ELSE "returned",
                        !.connected = FALSE]
    /\ UNCHANGED notReader

(* c.EventCh <- Event{Type: EventDisconnected}: blocks while EventCh is full *)
ReaderSend ==
    /\ rd.pc = "send" /\ rd.events < EventChCap
    /\ rd' = [rd EXCEPT !.pc = "returned", !.events = @ + 1]
    /\ UNCHANGED notReader

(* Disconnect: c.mu.Lock(); if !c.connected return; c.connected = false;    *)
(* close(c.stopCh)                                                          *)
DisconnectStop ==
    /\ rd.dpc = 0 /\ rd.mu = "free"
    /\ rd' = IF rd.connected
             THEN [rd EXCEPT !.mu = "disconnect", !.connected = FALSE,
                             !.stopClosed = TRUE, !.dpc = 1, !.asked = TRUE]
             ELSE [rd EXCEPT !.dpc = 3]
    /\ UNCHANGED notReader

(* Disconnect: c.conn.Close() *)
DisconnectClose ==
    /\ rd.dpc = 1
    /\ rd' = [rd EXCEPT !.socket = "closed", !.dpc = 2]
    /\ UNCHANGED notReader

(* Disconnect: c.conn = nil; the deferred c.mu.Unlock() *)
DisconnectNil ==
    /\ rd.dpc = 2
    /\ rd' = [rd EXCEPT !.connNil = TRUE, !.mu = "free", !.dpc = 3]
    /\ UNCHANGED notReader

(* eventLoop: case event := <-a.conn.EventCh *)
HostTakesEvent ==
    /\ rd.hostUp /\ rd.events > 0
    /\ rd' = [rd EXCEPT !.events = @ - 1]
    /\ UNCHANGED notReader

(* eventLoop: case <-a.ctx.Done(): return -- the host shuts down; nothing  *)
(* in the App calls Connection.Disconnect on that path                     *)
HostShutdown ==
    /\ rd.hostUp
    /\ rd' = [rd EXCEPT !.hostUp = FALSE, !.asked = @ \/ rd.connected]
    /\ UNCHANGED notReader

(* the remote side closes the connection *)
RemoteClose ==
    /\ rd.socket = "open"
    /\ rd' = [rd EXCEPT !.socket = "eof"]
    /\ UNCHANGED notReader

ReaderStep ==
    \/ ReaderCheck
    \/ ReaderDeadline
    \/ ReaderRead
    \/ ReaderTimeout
    \/ ReaderProcess
    \/ ReaderLost
    \/ ReaderSend

DisconnectStep ==
    \/ DisconnectClose
    \/ DisconnectNil

NextReader ==
    \/ ReaderStep
    \/ DisconnectStop
    \/ DisconnectStep
    \/ HostTakesEvent
    \/ HostShutdown
    \/ RemoteClose

SpecReader == InitReader /\ [][NextReader]_vars

(* the scheduler runs every task that can take a step: the reader, a       *)
(* Disconnect that has begun, the eventLoop while the host is up           *)
SpecReaderFair ==
    /\ SpecReader
    /\ WF_vars(ReaderStep)
    /\ WF_vars(DisconnectStep)
    /\ WF_vars(HostTakesEvent)

\* C17: after Disconnect, or the host's shutdown, on a connected Connection
\* the reader task eventually ends, whatever it was doing.
C17_ReaderEventuallyEnds == rd.asked ~> ~ReaderRuns

-----------------------------------------------------------------------------
(* Functions of the program applied to chosen arguments: fnIn is the call,  *)
(* fnOut is empty before the call and holds its result after it.            *)
(*   negotiate: the reader gets the three bytes IAC cmd opt in one read     *)
(*   sanitize:  the file-name normalization of parseFileInfo on a name      *)
TraversalName == <<46, 46, 47, 46, 46, 47, 101, 116, 99, 47, 112, 97, 115, 115, 119, 100>>
NestedName == <<102, 111, 111, 47, 98, 97, 114>>      \* "foo/bar"
HiddenName == <<46, 104, 105, 100, 100, 101, 110>>    \* ".hidden"

SanitizeNames == NamesUpTo(MaxNameLen) \cup {TraversalName, NestedName, HiddenName}

(*   header:    BuildHexHeader / BuildBinHeader of five bytes, then the     *)
(*              parser of the same form on the bytes built                  *)
(*   subpacket: BuildDataSubpacket of a payload, then ParseDataSubpacket on *)
(*              the bytes built and on each strict prefix of them           *)
TypeBytes == {ZRQINIT, ZFILE, ZDATA, ZCAN, ZDLE, 255}
ParamBytes == {0, 13, 17, 19, ZDLE, ZPAD, 144, 255}
HighParamBytes == {0, 145, ZDLE}

Headers ==
    {<<ft, p0, p1, p2, p3>> : ft \in TypeBytes, p0 \in ParamBytes, p1 \in ParamBytes,
                              p2 \in HighParamBytes, p3 \in HighParamBytes}

MaxPayloadLen == 2
PayloadBytes == {0, 13, ZDLE, 40, 41, 42, 43, ZCRCE, ZCRCW, 255}

RECURSIVE PayloadsUpTo(_)
PayloadsUpTo(n) ==
    IF n = 0 THEN {<<>>}
    ELSE LET shorter == PayloadsUpTo(n - 1) IN
         shorter \cup {Append(s, c) : s \in shorter, c \in PayloadBytes}

(* a payload of a full block that holds every byte value, so the escape    *)
(* set, the end types and the bytes whose escaped form would be an end type *)
LongPayload == [k \in 1..BlockSize |-> (k * 7) % 256]

Payloads == PayloadsUpTo(MaxPayloadLen) \cup {LongPayload}

HeaderCalls ==
    {[fn |-> "hex", hdr |-> h] : h \in Headers}
    \cup {[fn |-> "bin", hdr |-> h, crc32 |-> w] : h \in Headers, w \in BOOLEAN}

SubpacketCalls ==
    {[fn |-> "subpacket", payload |-> pl, endType |-> e, crc32 |-> w] :
        pl \in Payloads, e \in {ZCRCE, ZCRCG, ZCRCQ, ZCRCW}, w \in BOOLEAN}

(* ZRPOS(offset) for a file of size bytes: sizes around one and two blocks *)
FileBytes(size) == [k \in 1..size |-> (k * 7) % 256]

SizesAndOffsets ==
    {<<0, 0>>, <<1, 0>>, <<1, 1>>, <<BlockSize, 0>>, <<BlockSize + 1, 0>>,
     <<BlockSize + 1, 1>>, <<BlockSize + 1, BlockSize + 1>>,
     <<2 * BlockSize + 1, 0>>, <<2 * BlockSize + 1, BlockSize>>,
     <<2 * BlockSize + 1, BlockSize + 1>>}

ZrposCalls ==
    {[fn |-> "zrpos", size |-> so[1], offset |-> so[2], crc32 |-> w] :
        so \in SizesAndOffsets, w \in BOOLEAN}

FnCalls ==
    {[fn |-> "negotiate", cmd |-> c, opt |-> o, name |-> <<>>] :
        c \in {DO, DONT, WILL, WONT}, o \in 0..255}
    \cup {[fn |-> "sanitize", cmd |-> 0, opt |-> 0, name |-> n] : n \in SanitizeNames}
    \cup HeaderCalls
    \cup SubpacketCalls
    \cup ZrposCalls

InitFn ==
    /\ IdleNotFn
    /\ fnIn \in FnCalls
    /\ fnOut = <<>>

(* recvLoop reads IAC cmd opt: processTelnet calls negotiate *)
NegotiateCall ==
    /\ fnIn.fn = "negotiate" /\ fnOut = <<>>
    /\ fnOut' = <<processTelnet(<<IAC, fnIn.cmd, fnIn.opt>>).sent>>
    /\ UNCHANGED <<fnIn, notFn>>

(* parseFileInfo normalizes the name of the file-info subpacket *)
SanitizeCall ==
    /\ fnIn.fn = "sanitize" /\ fnOut = <<>>
    /\ fnOut' = <<sanitizeFilename(fnIn.name)>>
    /\ UNCHANGED <<fnIn, notFn>>

(* ParseHexHeader on the bytes BuildHexHeader gives *)
parsedHex(built) == [built |-> built, parsed |-> ParseHexHeader(built)]

HexHeaderCall ==
    /\ fnIn.fn = "hex" /\ fnOut = <<>>
    /\ fnOut' = <<parsedHex(BuildHexHeader(fnIn.hdr[1], fnIn.hdr[2], fnIn.hdr[3],
                                           fnIn.hdr[4], fnIn.hdr[5]))>>
    /\ UNCHANGED <<fnIn, notFn>>

(* ParseBinHeader on the bytes BuildBinHeader gives *)
parsedBin(built) == [built |-> built, parsed |-> ParseBinHeader(built)]

BinHeaderCall ==
    /\ fnIn.fn = "bin" /\ fnOut = <<>>
    /\ fnOut' = <<parsedBin(BuildBinHeader(fnIn.hdr[1], fnIn.hdr[2], fnIn.hdr[3],
                                           fnIn.hdr[4], fnIn.hdr[5], fnIn.crc32))>>
    /\ UNCHANGED <<fnIn, notFn>>

(* ParseDataSubpacket on the bytes BuildDataSubpacket gives, and the strict *)
(* prefixes of them (by length) on which it returns a subpacket             *)
parsedSubpacket(built, w) ==
    [built |-> built, parsed |-> ParseDataSubpacket(built, w),
     prefixes |-> {k \in 0..(Len(built) - 1) : ParseDataSubpacket(SubSeq(built, 1, k), w).ok}]

SubpacketCall ==
    /\ fnIn.fn = "subpacket" /\ fnOut = <<>>
    /\ fnOut' = <<parsedSubpacket(BuildDataSubpacket(fnIn.payload, fnIn.endType, fnIn.crc32),
                                  fnIn.crc32)>>
    /\ UNCHANGED <<fnIn, notFn>>

(* the sender of a file of size bytes after StartUpload and the receiver's  *)
(* ZRINIT, with or without CANFC32: it has sent ZFILE and waits for ZRPOS   *)
AwaitingZrpos(size, w) ==
    TxFeed(StartUpload(NewSender([q \in {UploadPath} |-> FileBytes(size)], 0), UploadPath),
           BuildHexHeader(ZRINIT, 0, 0, 0, IF w THEN ZrinitFlags ELSE CANFDX + CANOVIO))

(* Feed with the hex header ZRPOS(offset): before is the number of sends    *)
(* made until then                                                          *)
fedZrpos(s0, offset) ==
    [before |-> Len(s0.sent), s |-> TxFeed(s0, BuildPosHeader(ZRPOS, I64(offset)))]

ZrposCall ==
    /\ fnIn.fn = "zrpos" /\ fnOut = <<>>
    /\ fnOut' = <<fedZrpos(AwaitingZrpos(fnIn.size, fnIn.crc32), fnIn.offset)>>
    /\ UNCHANGED <<fnIn, notFn>>

NextFn ==
    \/ NegotiateCall
    \/ SanitizeCall
    \/ HexHeaderCall
    \/ BinHeaderCall
    \/ SubpacketCall
    \/ ZrposCall

SpecFn == InitFn /\ [][NextFn]_vars

(* the verb of the reply the negotiation rules give to cmd opt *)
ReplyVerb(cmd, opt) ==
    CASE cmd = 253 -> IF opt \in {24, 31, 3, 0} THEN 251 ELSE 252
      [] cmd = 251 -> IF opt \in {1, 3, 0} THEN 253 ELSE 254
      [] cmd = 254 -> 252
      [] cmd = 252 -> 254

\* C18: for every option byte, each of DO, WILL, DONT, WONT is answered by
\* exactly one reply IAC verb opt: DO by WILL for TTYPE, NAWS, SGA, BINARY and
\* by WONT otherwise, WILL by DO for ECHO, SGA, BINARY and by DONT otherwise,
\* DONT by WONT, WONT by DONT; WILL NAWS is directly followed by
\* IAC SB NAWS cols rows IAC SE with cols and rows as 16-bit big-endian.
C18_OneReplyPerCommand ==
    (fnIn.fn = "negotiate" /\ fnOut # <<>>) =>
        /\ fnOut[1][1] = <<255, ReplyVerb(fnIn.cmd, fnIn.opt), fnIn.opt>>
        /\ IF fnIn.cmd = 253 /\ fnIn.opt = 31
           THEN /\ Len(fnOut[1]) = 2
                /\ fnOut[1][2] = <<255, 250, 31, 0, 80, 0, 25, 255, 240>>
           ELSE Len(fnOut[1]) = 1

C18_Witness ==
    /\ fnIn.fn = "negotiate" /\ fnIn.cmd = DO /\ fnIn.opt = NAWS
    /\ fnOut # <<>> /\ Len(fnOut[1]) = 2

(* the normalization rule: backslashes become slashes, the basename is     *)
(* kept, bytes outside [A-Za-z0-9._-] become '_', and a result that is     *)
(* empty or starts with '.' becomes "download"                             *)
RuleSlashed(n) == [k \in 1..Len(n) |-> IF n[k] = 92 THEN 47 ELSE n[k]]

RuleNameEnd(s) ==
    LET kept == {k \in 1..Len(s) : s[k] # 47} IN
    IF kept = {} THEN 0 ELSE CHOOSE k \in kept : \A j \in kept : j <= k

RuleNameStart(s, e) ==
    LET cuts == {k \in 1..e : s[k] = 47} IN
    IF cuts = {} THEN 1 ELSE 1 + CHOOSE k \in cuts : \A j \in cuts : j <= k

RuleBasename(s) ==
    IF s = <<>> THEN <<46>>
    ELSE IF RuleNameEnd(s) = 0 THEN <<47>>
    ELSE SubSeq(s, RuleNameStart(s, RuleNameEnd(s)), RuleNameEnd(s))

RuleSafe(c) == c \in (48..57) \cup (65..90) \cup (97..122) \cup {46, 95, 45}

RuleUnderscored(s) == [k \in 1..Len(s) |-> IF RuleSafe(s[k]) THEN s[k] ELSE 95]

RuleNormalized(n) ==
    LET u == RuleUnderscored(RuleBasename(RuleSlashed(n))) IN
    IF u = <<>> \/ u[1] = 46 THEN <<100, 111, 119, 110, 108, 111, 97, 100>> ELSE u

NormalizedByRule ==
    (fnIn.fn = "sanitize" /\ fnOut # <<>>) =>
        /\ fnOut[1] = RuleNormalized(fnIn.name)
        /\ fnIn.name = NestedName => fnOut[1] = <<98, 97, 114>>
        /\ fnIn.name = HiddenName => fnOut[1] = <<100, 111, 119, 110, 108, 111, 97, 100>>

HeaderOf(parsed) == <<parsed.FrameType, parsed.P0, parsed.P1, parsed.P2, parsed.P3>>

\* C21: for every header of five bytes, bytes of the ZDLE escape set included,
\* the hex parser on the built hex header and the binary parser on the built
\* binary header (CRC-16 and CRC-32) return the same five bytes, Consumed equal
\* to the length of the built header and, for the binary forms, the IsCRC32
\* flag the header was built with.
C21_HeaderRoundTrip ==
    (fnIn.fn \in {"hex", "bin"} /\ fnOut # <<>>) =>
        /\ fnOut[1].parsed.ok
        /\ HeaderOf(fnOut[1].parsed) = fnIn.hdr
        /\ fnOut[1].parsed.Consumed = Len(fnOut[1].built)
        /\ fnIn.fn = "hex" => Len(fnOut[1].built) = 20
        /\ fnIn.fn = "bin" => fnOut[1].parsed.IsCRC32 = fnIn.crc32

(* a CRC-32 binary header of five escaped bytes, and a hex header with hex  *)
(* digits a..f, came back                                                   *)
C21_Witness ==
    /\ fnOut # <<>>
    /\ \/ /\ fnIn.fn = "bin" /\ fnIn.crc32
          /\ fnIn.hdr = <<ZDLE, 255, 13, 145, ZDLE>>
          /\ Len(fnOut[1].built) >= 3 + 10 + 4
          /\ fnOut[1].parsed.ok
       \/ /\ fnIn.fn = "hex" /\ fnIn.hdr = <<255, 255, 255, 145, ZDLE>>
          /\ fnOut[1].parsed.ok

\* C22: for every payload of up to 1024 bytes (any byte values, also ZDLE,
\* 0xFF and 0x28..0x2B), each end type and both CRC widths, the parser on the
\* built subpacket returns the payload, the end type and Consumed equal to the
\* built length, and on every strict prefix of the built subpacket it returns
\* nothing (incomplete).
C22_SubpacketRoundTrip ==
    (fnIn.fn = "subpacket" /\ fnOut # <<>>) =>
        /\ fnOut[1].parsed.ok
        /\ fnOut[1].parsed.Payload = fnIn.payload
        /\ fnOut[1].parsed.EndType = fnIn.endType
        /\ fnOut[1].parsed.Consumed = Len(fnOut[1].built)
        /\ fnOut[1].prefixes = {}

(* the payload of a full block, with bytes that are escaped, came back *)
C22_Witness ==
    /\ fnIn.fn = "subpacket" /\ fnOut # <<>>
    /\ fnIn.crc32
    /\ fnIn.payload = LongPayload
    /\ fnOut[1].parsed.ok
    /\ Len(fnOut[1].built) > Len(fnIn.payload) + 2 + 4

-----------------------------------------------------------------------------
\* C24: the sender never has more than one file open: each ZRPOS, also one
\* that arrives in WaitAck after an earlier ZRPOS, closes the file of the
\* earlier restart before it opens the file again, and every open file is the
\* one fileHandle refers to.
C24_AtMostOneOpenFile ==
    /\ tx.maxOpenFiles <= 1
    /\ tx.openFiles = (IF tx.fileHandle.open THEN 1 ELSE 0)

C24_Witness ==
    /\ ZrposCount(txLog) >= 2
    /\ txLog[Len(txLog)].type = ZRPOS
    /\ tx.State = TxWaitAck
    /\ tx.maxOpenFiles = 1
    /\ tx.openFiles = 0

(* the connection has had a receiver (a sender) made *)
Made(obj) == DOMAIN obj # {}

C26_TransferStateIsReaderOnly ==
    [][LET readerStep == cnIn' # cnIn \/ conn'.clock # conn.clock
           changed == \/ conn'.zmodemActive # conn.zmodemActive
                      \/ conn'.zmodemReceiver # conn.zmodemReceiver
                      \/ conn'.zmodemSender # conn.zmodemSender
                      \/ conn'.receiver # conn.receiver
                      \/ conn'.sender # conn.sender
       IN /\ readerStep => cnUp \notin {1, 2}
          /\ changed => readerStep]_vars

-----------------------------------------------------------------------------
(* Socket writes and the mutexes.  Two tasks write to the socket through    *)
(* Connection.Send: eventLoop, when a Feed it makes under a.mu meets a DSR  *)
(* request (Screen.OnResponse is `a.conn.Send(data)`), and the task of the  *)
(* user interface in App.SendKey.  A write to the socket can block, so the  *)
(* other task runs while a write is in progress.  The session is connected. *)
(*   amu, cmu   the holder of a.mu and of c.mu ("free" or a task)           *)
(*   connected  Connection.connected                                        *)
(*   pc         per task: "idle", "feeding" (eventLoop inside Feed), "send" *)
(*              (in Send, at c.mu.Lock()), "write" (in c.conn.Write)        *)
(*   data       per task: the argument of its Send                          *)
(*   written    the byte strings written to the socket, in order            *)
MaxIoCalls == 3

DsrTexts == {<<97>>, <<27, 91, 54, 110>>, <<27, 91, 53, 110, 98>>}
KeyData == {<<13>>, <<27, 91, 65>>}

IoTasks == {"loop", "ui"}

InitIo ==
    /\ IdleNotIo
    /\ io = [screen |-> NewScreen(ScrCols, ScrRows), amu |-> "free", cmu |-> "free",
             connected |-> TRUE, feed |-> <<>>,
             pc |-> [t \in IoTasks |-> "idle"], data |-> [t \in IoTasks |-> <<>>],
             written |-> <<>>, calls |-> 0]

(* where a task goes on when its Send returns *)
afterSend(t) == IF t = "loop" THEN "feeding" ELSE "idle"

(* eventLoop: a.mu.Lock(); a.screen.Feed(text) is entered *)
IoFeedBegin(text) ==
    /\ io.pc["loop"] = "idle" /\ io.amu = "free" /\ io.calls < MaxIoCalls
    /\ io' = [io EXCEPT !.amu = "loop", !.pc["loop"] = "feeding", !.feed = text,
                        !.screen.resp = <<>>, !.calls = @ + 1]
    /\ UNCHANGED notIo

(* Feed: s.process(ch) for the next character; a DSR request calls         *)
(* OnResponse, that is a.conn.Send, before process returns                  *)
fedChar(i, s2) ==
    IF Len(s2.resp) > Len(i.screen.resp)
    THEN [i EXCEPT !.screen = s2, !.feed = Tail(@), !.pc["loop"] = "send",
                   !.data["loop"] = s2.resp[Len(s2.resp)]]
    ELSE [i EXCEPT !.screen = s2, !.feed = Tail(@)]

IoFeedChar ==
    /\ io.pc["loop"] = "feeding" /\ io.feed # <<>>
    /\ io' = fedChar(io, process(io.screen, Head(io.feed)))
    /\ UNCHANGED notIo

(* Feed returns; a.mu.Unlock() *)
IoFeedEnd ==
    /\ io.pc["loop"] = "feeding" /\ io.feed = <<>>
    /\ io' = [io EXCEPT !.amu = "free", !.pc["loop"] = "idle"]
    /\ UNCHANGED notIo

(* App.SendKey: a.mu.Lock(); ok := a.connected; a.mu.Unlock(); then          *)
(* a.conn.Send(data) is entered                                             *)
SendKey(data) ==
    /\ io.pc["ui"] = "idle" /\ io.amu = "free" /\ io.calls < MaxIoCalls
    /\ io' = [io EXCEPT !.pc["ui"] = "send", !.data["ui"] = data, !.calls = @ + 1]
    /\ UNCHANGED notIo

(* Connection.Send: c.mu.Lock(); defer c.mu.Unlock(); the test of connected *)
SendLock(t) ==
    /\ io.pc[t] = "send" /\ io.cmu = "free"
    /\ io' = IF io.connected
             THEN [io EXCEPT !.cmu = t, !.pc[t] = "write"]
             ELSE [io EXCEPT !.pc[t] = afterSend(t)]
    /\ UNCHANGED notIo

(* Connection.Send: c.conn.Write(data) returns, with an error or without;   *)
(* the deferred c.mu.Unlock()                                               *)
SendWrite(t, ok) ==
    /\ io.pc[t] = "write"
    /\ io' = [io EXCEPT !.written = IF ok THEN Append(@, io.data[t]) ELSE @,
                        !.connected = ok,
                        !.cmu = "free", !.pc[t] = afterSend(t)]
    /\ UNCHANGED notIo

NextIo ==
    \/ \E text \in DsrTexts : IoFeedBegin(text)
    \/ IoFeedChar
    \/ IoFeedEnd
    \/ \E data \in KeyData : SendKey(data)
    \/ \E t \in IoTasks : SendLock(t)
    \/ \E t \in IoTasks, ok \in BOOLEAN : SendWrite(t, ok)

SpecIo == InitIo /\ [][NextIo]_vars

\* C27: no mutex is held while a write to the socket is in progress: a task
\* inside c.conn.Write holds neither c.mu (Connection.Send) nor a.mu (a DSR
\* reply written from inside Feed).
C27_NoMutexAcrossWrite ==
    \A t \in IoTasks :
        io.pc[t] = "write" => (io.cmu # t /\ io.amu # t)

\* C28: whenever the receiver has a file open, the file's write position is
\* BytesReceived: a data subpacket moves both by the length of its payload,
\* and a ZDATA header whose offset is not BytesReceived seeks to the offset
\* and sets BytesReceived to it.
C28_WritePositionIsBytesReceived ==
    rx.fileHandle.open => rx.fileHandle.pos = rx.BytesReceived

C28_Witness ==
    /\ rxScn.kind = "seek"
    /\ rx.fileHandle.open
    /\ rx.fileHandle.pos = I64(2)
    /\ rx.BytesReceived = I64(2)
    /\ rx.fs[rx.fileHandle.path] = <<104, 111>>

(* the frames the sender has to send for ZRPOS(offset): a binary ZDATA      *)
(* header, the file from offset on in blocks of BlockSize bytes, the last   *)
(* one ended by ZCRCE and the others by ZCRCG, and a ZEOF header            *)
BlocksFrom(size, offset) == (size - offset + BlockSize - 1) \div BlockSize

BlockOf(size, offset, j) ==
    SubSeq(FileBytes(size), offset + (j - 1) * BlockSize + 1,
           IF offset + j * BlockSize < size THEN offset + j * BlockSize ELSE size)

ResumeFrames(size, offset, w) ==
    <<BuildBinPosHeader(ZDATA, I64(offset), w)>>
    \o [j \in 1..BlocksFrom(size, offset) |->
          BuildDataSubpacket(BlockOf(size, offset, j),
                             IF j = BlocksFrom(size, offset) THEN ZCRCE ELSE ZCRCG, w)]
    \o <<BuildPosHeader(ZEOF, I64(size))>>

\* C29: on ZRPOS(offset) for a file of S >= offset bytes the sender sends, in
\* this order, one binary ZDATA(offset) header, ceil((S - offset) / 1024) data
\* subpackets with the file's bytes from offset on, the last ended by ZCRCE
\* and the others by ZCRCG (none when S = offset), and ZEOF(S); it is then in
\* WaitAck with BytesSent = S.
C29_ResumeSendsRestOfFile ==
    (fnIn.fn = "zrpos" /\ fnOut # <<>>) =>
        /\ SubSeq(fnOut[1].s.sent, fnOut[1].before + 1, Len(fnOut[1].s.sent))
              = ResumeFrames(fnIn.size, fnIn.offset, fnIn.crc32)
        /\ fnOut[1].s.State = TxWaitAck
        /\ fnOut[1].s.BytesSent = I64(fnIn.size)

C29_Witness ==
    /\ fnIn.fn = "zrpos" /\ fnOut # <<>>
    /\ fnIn.size = 2 * BlockSize + 1 /\ fnIn.offset = BlockSize
    /\ Len(fnOut[1].s.sent) = fnOut[1].before + 4
    /\ fnOut[1].s.UseCRC32

-----------------------------------------------------------------------------
(* The screen under CSI sequences with parameter strings of any length: the *)
(* characters fed are ESC, [, the parameter character 1 and the final       *)
(* character B (cursor down), one per Feed.                                 *)
CsiTexts(s) ==
    CASE s.state = stateNormal -> {<<27>>}
      [] s.state = stateESC -> {<<91>>}
      [] OTHER -> {<<49>>, <<66>>}

InitCsi == InitScreen

FeedCsi(text) == FeedScreen(text)

NextCsi ==
    \/ \E text \in CsiTexts(screen) : FeedCsi(text)
    \/ ResetScreen

SpecCsi == InitCsi /\ [][NextCsi]_vars

(* the parameter characters of a CSI sequence: 0..9, ; and ? *)
AllParamChars == (48..57) \cup {59, 63}

\* C30: the CSI parameter buffer never holds more than 1024 bytes; a parameter
\* character that arrives in state CSI when the buffer is full puts the parser
\* back to Normal with an empty buffer and changes nothing else: no command
\* is executed, grid, cursor and attributes stay as they are.
C30_CsiBufferCapped ==
    /\ Len(screen.csiBuf) <= MaxCSIBuf
    /\ (screen.state = stateCSI /\ Len(screen.csiBuf) = MaxCSIBuf) =>
          \A ch \in AllParamChars :
              process(screen, ch) = [screen EXCEPT !.state = stateNormal, !.csiBuf = <<>>]

C30_Witness ==
    /\ screen.state = stateCSI
    /\ Len(screen.csiBuf) = MaxCSIBuf

\* C31: processTelnet returns for every chunk, also for one that ends with
\* IAC and DO, DONT, WILL or WONT with no option byte, or that holds IAC SB
\* with no IAC SE after it: the reader never spins on a truncated sequence.
C31_ProcessTelnetReturns == ~tnHang

\* C32: whatever the interleaving of Disconnect with the reader loop, the
\* reader never calls SetReadDeadline or Read on the connection handle after
\* Disconnect has set it to nil.
C32_ReaderNeverUsesNilConn == rd.pc # "panicked"

-----------------------------------------------------------------------------
(* The sender under reads that hold one or two of the remote side's frames: *)
(* the remote receiver answers fast, or the transport joins two segments,   *)
(* and one conn.Read returns both headers.  txLog keeps the frames fed.     *)
MaxBursts == 2

BurstFrames ==
    {[type |-> ZRINIT, pos |-> I64(0)], [type |-> ZRPOS, pos |-> I64(0)],
     [type |-> ZACK, pos |-> I64(0)], [type |-> ZFIN, pos |-> I64(0)]}

Bursts == {<<f>> : f \in BurstFrames} \cup {<<f, g>> : f \in BurstFrames, g \in BurstFrames}

BurstBytes(b) ==
    IF Len(b) = 1 THEN FrameBytes(b[1]) ELSE FrameBytes(b[1]) \o FrameBytes(b[2])

InitBurst == InitTx

(* one iteration of recvLoop with the sender active: Sender.Feed(clean) *)
FeedBurst(b) ==
    /\ TxActive /\ Len(txLog) + Len(b) <= 2 * MaxBursts
    /\ tx' = TxFeed(tx, BurstBytes(b))
    /\ txLog' = txLog \o b
    /\ UNCHANGED notTx

NextBurst ==
    \/ \E b \in Bursts : FeedBurst(b)
    \/ CancelTx

SpecBurst == InitBurst /\ [][NextBurst]_vars

\* C33: after a Feed the sender does not wait with a complete, valid header
\* in its buffer: when one read holds two headers (ZRINIT and ZFIN, ZRPOS and
\* ZRINIT) both are handled, in stream order, before the sender waits again.
C33_NoHeaderLeftWaiting ==
    TxActive => ~ParseHexHeader(tx.buf).ok /\ ~ParseBinHeader(tx.buf).ok

(* a message handed to SendFunc that begins with the binary header of type ft *)
StartsWithBinHeader(m, ft) ==
    ParseBinHeader(m).ok /\ ParseBinHeader(m).FrameType = ft
        /\ m[1] = ZPAD /\ m[2] = ZDLE

\* C34: in every upload the first ZDATA header, and with it the file data,
\* is sent after the ZFILE header and its file-info subpacket: a ZRPOS that
\* arrives in WaitRInit, before any ZRINIT, does not start the data stream.
C34_DataOnlyAfterZFile ==
    \A k \in 1..Len(tx.sent) :
        StartsWithBinHeader(tx.sent[k], ZDATA) =>
            \E j \in 1..(k - 1) : StartsWithBinHeader(tx.sent[j], ZFILE)

\* C35: the receiver creates a target file only from the data subpacket that
\* follows a ZFILE header: in a session without a ZFILE frame, where a data
\* subpacket comes after ZDATA while no file is open, the subpacket is not
\* read as file info, no file is created and no download is announced.
C35_FileOnlyFromZFileInfo ==
    rxScn.kind = "stray" =>
        /\ rx.creates = <<>>
        /\ DOMAIN rx.fs = DOMAIN ScriptFiles(rxScn)
        /\ ~HasEvent(rx, "start")

\* C37: at most one ZMODEM side is active at any time: the connection never
\* holds a receiver and a sender that are both in a transfer; an upload
\* requested during a download does not make a second active side.
C37_AtMostOneActiveSide == ~(receiverActive(conn) /\ senderActive(conn))

-----------------------------------------------------------------------------
(* Two connections of one Connection object: Connect, the reader's chunks,  *)
(* the end of the connection (Disconnect, a read error or the remote close, *)
(* a failed write), and Connect again.  The connection record gets three    *)
(* fields more:                                                             *)
(*   connected  c.connected                                                 *)
(*   dials      the number of Connect calls that succeeded                  *)
(*   dialAt     the length of cnLog when the last of them was made          *)
(* A script holds the chunks of the first connection and, in `again`, those *)
(* of the later ones (text only).                                           *)
MaxDials == 2

SessionScripts ==
    {[kind |-> "session", chunks |-> SubSeq(d.chunks, 1, 5), again |-> a,
      files |-> NoFiles, upload |-> <<>>] :
        d \in DownloadScripts, a \in {<<Text>>, <<Text, Text>>}}
    \cup {[kind |-> "session", chunks |-> SubSeq(u.chunks, 1, 2), again |-> <<Text>>,
           files |-> u.files, upload |-> u.upload] : u \in UploadScripts}

InitSession ==
    /\ IdleNotConn
    /\ cnScn \in SessionScripts
    /\ conn = NewConnection(DirAbs, cnScn.files)
                @@ [connected |-> FALSE, dials |-> 0, dialAt |-> 0]
    /\ cnIn = <<>>
    /\ cnUp = 0
    /\ cnTail = <<>>
    /\ cnLog = <<>>

(* Connection.Connect after a successful dial: c.conn, c.connected, a new   *)
(* stopCh, the Connected event, go c.recvLoop()                             *)
SessConnect ==
    /\ ~conn.connected /\ conn.dials < MaxDials
    /\ conn' = [conn EXCEPT !.connected = TRUE, !.dials = @ + 1, !.dialAt = Len(cnLog),
                            !.events = Append(@, [type |-> "connected"])]
    /\ cnIn' = IF conn.dials = 0 THEN cnScn.chunks ELSE cnScn.again
    /\ UNCHANGED <<cnScn, cnUp, cnTail, cnLog, notConn>>

(* recvLoop of the present connection: a read that returns data *)
SessRecv == conn.connected /\ RecvData

(* App.UploadFile (it asks for a.connected) and the task it starts *)
SessUpload == conn.connected /\ (UploadAssign \/ UploadActivate \/ UploadStart)

(* Connection.Disconnect: c.connected = false, close(c.stopCh), c.conn.Close(), *)
(* c.conn = nil; the reader returns at its next stop check or read          *)
SessDisconnect ==
    /\ conn.connected
    /\ conn' = [conn EXCEPT !.connected = FALSE]
    /\ UNCHANGED <<cnScn, cnIn, cnUp, cnTail, cnLog, notConn>>

(* recvLoop: a read error that is not a timeout, or n == 0: c.connected =   *)
(* false, the Disconnected event, return.  Connection.Send: a failed write: *)
(* c.connected = false and a task that sends the Disconnected event; the    *)
(* reader's next read of the broken socket fails and it returns.            *)
SessLost ==
    /\ conn.connected
    /\ conn' = [conn EXCEPT !.connected = FALSE,
                            !.events = Append(@, [type |-> "disconnected"])]
    /\ UNCHANGED <<cnScn, cnIn, cnUp, cnTail, cnLog, notConn>>

NextSession ==
    \/ SessConnect
    \/ SessRecv
    \/ SessUpload
    \/ SessDisconnect
    \/ SessLost
    \/ CancelConn

SpecSession == InitSession /\ [][NextSession]_vars

\* C36: a transfer does not outlive its connection: once the connection has
\* ended (Disconnect, a failed write, a read error or the remote close) no
\* file of a transfer is open and no transfer is active, and every clean
\* chunk of a later connection goes through the detector to the screen path.
C36_TransferEndsWithConnection ==
    /\ ~conn.connected =>
          /\ ~conn.zmodemActive
          /\ Made(conn.receiver) => ~conn.receiver.fileHandle.open
          /\ Made(conn.sender) => ~conn.sender.fileHandle.open
    /\ \A k \in (conn.dialAt + 1)..Len(cnLog) :
          conn.dials > 1 => (cnLog[k].to = "screen" \/ cnLog[k].fired)

-----------------------------------------------------------------------------
(* The connected flags: App.connected and Connection.connected through      *)
(* Connect, Disconnect, failed writes, read errors and the events eventLoop *)
(* takes from EventCh.  link is the record                                  *)
(*   aConnected, cConnected   a.connected and c.connected                   *)
(*   conn        c.conn: the number of the socket, 0 for nil                *)
(*   stopClosed  c.stopCh (the present one) is closed                       *)
(*   sock        the sockets dialled so far: "open", "broken" (reset or     *)
(*               closed by the remote side), "closed" (by conn.Close)       *)
(*   reader      the reader task of each dial: pc is "check", "deadline",   *)
(*               "read", "lost" (a read error), "closed" (n == 0) or        *)
(*               "returned"; on is the socket of its Read                   *)
(*   EventCh     the events queued, oldest first                            *)
(*   pending     tasks started by Send that have not sent their event yet   *)
(*   ui          "idle", or "disc" inside App.Disconnect                    *)
(*   crashed     a task called a method on the nil c.conn                   *)
(* and history: tries and dials (Connect calls, successful ones), sentD     *)
(* (Disconnected events put in EventCh), failed and lost (a write failed,   *)
(* a read error was handled), lastUi (the last call that returned), refused *)
(* (a Connect call was answered "already connected").                       *)
InitLink ==
    /\ IdleNotLink
    /\ link = [aConnected |-> FALSE, cConnected |-> FALSE, conn |-> 0,
               stopClosed |-> FALSE, sock |-> <<>>, reader |-> <<>>,
               EventCh |-> <<>>, pending |-> 0, ui |-> "idle", crashed |-> FALSE,
               tries |-> 0, dials |-> 0, sentD |-> 0, failed |-> FALSE, lost |-> FALSE,
               lastUi |-> "none", refused |-> FALSE]

(* Connection.Connect: the dial fails (EventError) or succeeds (c.conn,     *)
(* c.connected, a new stopCh, EventConnected, go c.recvLoop())              *)
connConnect(l, ok) ==
    IF ~ok THEN [l EXCEPT !.EventCh = Append(@, "error"), !.tries = @ + 1]
    ELSE [l EXCEPT !.sock = Append(@, "open"), !.conn = Len(l.sock) + 1,
                   !.cConnected = TRUE, !.stopClosed = FALSE,
                   !.EventCh = Append(@, "connected"),
                   !.reader = Append(@, [pc |-> "check", on |-> 0]),
                   !.tries = @ + 1, !.dials = @ + 1, !.lastUi = "connect"]

(* App.Connect: "Già connesso" when a.connected, else Connection.Connect *)
AppConnect(ok) ==
    /\ ~link.crashed /\ link.tries < MaxDials
    /\ link' = IF link.aConnected THEN [link EXCEPT !.refused = TRUE]
               ELSE connConnect(link, ok)
    /\ UNCHANGED notLink

(* Connection.Disconnect, all of it under c.mu *)
connDisconnect(l) ==
    IF ~l.cConnected THEN l
    ELSE [l EXCEPT !.cConnected = FALSE, !.stopClosed = TRUE,
                   !.sock = IF l.conn = 0 THEN @ ELSE [@ EXCEPT ![l.conn] = "closed"],
                   !.conn = 0]

(* App.Disconnect: a.conn.Disconnect() *)
AppDisconnectCall ==
    /\ ~link.crashed /\ link.ui = "idle" /\ link.dials > 0
    /\ link' = [connDisconnect(link) EXCEPT !.ui = "disc"]
    /\ UNCHANGED notLink

(* App.Disconnect: a.connected = false under a.mu, and the return *)
AppDisconnectFlag ==
    /\ ~link.crashed /\ link.ui = "disc"
    /\ link' = [link EXCEPT !.aConnected = FALSE, !.ui = "idle", !.lastUi = "disconnect"]
    /\ UNCHANGED notLink

(* recvLoop: select { case <-c.stopCh: return; default: } *)
LinkReaderCheck(k) ==
    /\ ~link.crashed /\ link.reader[k].pc = "check"
    /\ link' = [link EXCEPT !.reader[k].pc = IF link.stopClosed THEN "returned"
                                             ELSE "deadline"]
    /\ UNCHANGED notLink

(* recvLoop: c.conn.SetReadDeadline(...) and the call of c.conn.Read *)
LinkReaderBegin(k) ==
    /\ ~link.crashed /\ link.reader[k].pc = "deadline"
    /\ link' = IF link.conn = 0 THEN [link EXCEPT !.crashed = TRUE]
               ELSE [link EXCEPT !.reader[k] = [pc |-> "read", on |-> link.conn]]
    /\ UNCHANGED notLink

(* recvLoop: Read returns: data or the deadline on an open socket (the loop *)
(* goes on); an error that is no timeout on a socket closed by conn.Close;  *)
(* an error, or no bytes and no error, on one the remote side has closed    *)
ReadResults(state) ==
    CASE state = "open" -> {"check"}
      [] state = "closed" -> {"lost"}
      [] OTHER -> {"lost", "closed"}

LinkReaderRead(k) ==
    /\ ~link.crashed /\ link.reader[k].pc = "read"
    /\ \E res \in ReadResults(link.sock[link.reader[k].on]) :
          link' = [link EXCEPT !.reader[k] = [pc |-> res, on |-> 0]]
    /\ UNCHANGED notLink

(* recvLoop: wasConnected := c.connected; c.connected = false (under c.mu); *)
(* if wasConnected { c.EventCh <- Disconnected }; return                    *)
readerLost(l, k) ==
    IF l.cConnected
    THEN [l EXCEPT !.cConnected = FALSE, !.reader[k].pc = "returned", !.lost = TRUE,
                   !.EventCh = Append(@, "disconnected"), !.sentD = @ + 1]
    ELSE [l EXCEPT !.reader[k].pc = "returned", !.lost = TRUE]

LinkReaderLost(k) ==
    /\ ~link.crashed /\ link.reader[k].pc = "lost"
    /\ link' = readerLost(link, k)
    /\ UNCHANGED notLink

(* recvLoop, n == 0: c.connected = false (under c.mu);                      *)
(* c.EventCh <- Disconnected; return                                        *)
LinkReaderClosed(k) ==
    /\ ~link.crashed /\ link.reader[k].pc = "closed"
    /\ link' = [link EXCEPT !.cConnected = FALSE, !.reader[k].pc = "returned",
                            !.EventCh = Append(@, "disconnected"), !.sentD = @ + 1]
    /\ UNCHANGED notLink

(* Connection.Send on a broken socket: the write fails, c.connected = false *)
(* and a task is started for the event; on an open socket, or when not      *)
(* connected, Send changes nothing                                          *)
connSend(l) ==
    IF ~l.cConnected \/ l.conn = 0 THEN l
    ELSE IF l.sock[l.conn] = "open" THEN l
    ELSE [l EXCEPT !.cConnected = FALSE, !.pending = @ + 1, !.failed = TRUE]

LinkSend ==
    /\ ~link.crashed
    /\ connSend(link) # link
    /\ link' = connSend(link)
    /\ UNCHANGED notLink

(* the task of Send: c.EventCh <- Event{Type: EventDisconnected} *)
LinkSendEvent ==
    /\ ~link.crashed /\ link.pending > 0
    /\ link' = [link EXCEPT !.pending = @ - 1, !.sentD = @ + 1,
                            !.EventCh = Append(@, "disconnected")]
    /\ UNCHANGED notLink

(* the remote side closes or resets socket s *)
LinkRemoteClose(s) ==
    /\ ~link.crashed /\ link.sock[s] = "open"
    /\ link' = [link EXCEPT !.sock[s] = "broken"]
    /\ UNCHANGED notLink

(* eventLoop: case event := <-a.conn.EventCh, the three connection events *)
LinkTakeEvent ==
    /\ ~link.crashed /\ link.EventCh # <<>>
    /\ link' = [link EXCEPT !.EventCh = Tail(@),
                            !.aConnected = (Head(link.EventCh) = "connected")]
    /\ UNCHANGED notLink

NextLink ==
    \/ \E ok \in BOOLEAN : AppConnect(ok)
    \/ AppDisconnectCall
    \/ AppDisconnectFlag
    \/ \E k \in 1..Len(link.reader) : LinkReaderCheck(k)
    \/ \E k \in 1..Len(link.reader) : LinkReaderBegin(k)
    \/ \E k \in 1..Len(link.reader) : LinkReaderRead(k)
    \/ \E k \in 1..Len(link.reader) : LinkReaderLost(k)
    \/ \E k \in 1..Len(link.reader) : LinkReaderClosed(k)
    \/ LinkSend
    \/ LinkSendEvent
    \/ \E s \in 1..Len(link.sock) : LinkRemoteClose(s)
    \/ LinkTakeEvent

SpecLink == InitLink /\ [][NextLink]_vars

\* C38: once App.Disconnect has returned (and no Connect was made since) and
\* the event queue is drained, a.connected is false and equals c.connected:
\* a Connected event queued before the Disconnect does not set the flag back.
C38_FlagFalseAfterDisconnect ==
    (link.lastUi = "disconnect" /\ link.ui = "idle"
        /\ link.EventCh = <<>> /\ link.pending = 0) =>
        /\ ~link.aConnected
        /\ link.aConnected = link.cConnected

(* the final characters of the cursor-motion commands: A B C D E F G H *)
MotionFinals == 65..72

\* C39: for the cursor-motion commands CSI A, B, C, D, E, F, G, H with any
\* decimal parameter that parses as a machine integer (up to 2^63 - 1) the new
\* cursor position is clamped into the grid: cursor + n does not wrap around
\* to a negative row or column.
C39_CursorMotionClamped ==
    (screen.state = stateCSI /\ ~screen.fault /\ CursorOnGrid(screen)) =>
        \A ch \in MotionFinals : CursorOnGrid(execCSI(screen, ch))

====
